---- MODULE Spec2Model ----
(***************************************************************************)
(* Verification model of the LLM client orchestration layer:               *)
(*   lib/llm/memory.ts  (MemoryManager over the keyed store),              *)
(*   lib/redis.ts       (setWithExpiry / getAndParse),                     *)
(*   lib/llm/config.ts  (generateSystemPrompt),                            *)
(*   lib/llm/client.ts  (LLMClient.generateResponse and                    *)
(*                       LLMClient.generateStreamingResponse).             *)
(*                                                                         *)
(* Text is a sequence of tokens (words, sentence terminators, blanks), so  *)
(* that concatenation is \o and the summarizer's split/trim/filter are     *)
(* computed as the code computes them.  An optional value is a sequence of *)
(* length 0 (undefined / null) or 1 (the value).                           *)
(***************************************************************************)
EXTENDS Integers, Sequences, FiniteSets, TLC

(***************************************************************************)
(* Bounds of the model.                                                    *)
(***************************************************************************)
\* longest fallback list a client is built with
MaxFallbacks == 2
\* most chunks all providers together yield during one streaming call
MaxChunks == 3
\* most messages already stored under the conversation key before the call
MaxHistory == 3
\* MemoryManager.MAX_MESSAGES_TO_KEEP (50 in the source), scaled down
MAX_MESSAGES_TO_KEEP == 3
\* MemoryManager.SUMMARY_MESSAGE_THRESHOLD (10 in the source), scaled down
SUMMARY_MESSAGE_THRESHOLD == 2

(***************************************************************************)
(* Program constants.                                                      *)
(***************************************************************************)
\* MemoryManager.MEMORY_EXPIRY_SECONDS = 24 * 60 * 60
MEMORY_EXPIRY_SECONDS == 86400
\* sentences.slice(-5)
SUMMARY_TOPIC_SENTENCES == 5

(***************************************************************************)
(* Optional values and JavaScript array helpers.                           *)
(***************************************************************************)
None == <<>>
Some(x) == <<x>>
IsSome(o) == o # <<>>
Val(o) == o[1]

Min(a, b) == IF a < b THEN a ELSE b
Max(a, b) == IF a > b THEN a ELSE b

\* Array.prototype.slice(start): a negative start counts from the end,
\* start = -0 = 0 is the whole array.
SliceFrom(s, start) ==
    LET n == Len(s)
        b == IF start < 0 THEN Max(n + start, 0) ELSE Min(start, n)
    IN  SubSeq(s, b + 1, n)

(***************************************************************************)
(* Text: String.prototype.trim, split(/[.!?]/), Array.prototype.join.      *)
(*                                                                         *)
(* A text is the sequence of its tokens, and the text it stands for is the *)
(* concatenation of them.  Every white-space character and every sentence  *)
(* terminator of a text is a token of its own; a word token holds neither  *)
(* a terminator nor white space at either end (blanks inside a word token, *)
(* as in "Test prompt", are never looked at by trim or split).  Under this *)
(* tokenisation trim removes exactly the white-space tokens at the two     *)
(* ends and split cuts exactly at the terminator tokens, as the string     *)
(* operations do character by character.  Every text of the model is       *)
(* written this way.                                                       *)
(*                                                                         *)
(* Whitespace is the set trim removes: the 25 characters of ECMAScript     *)
(* WhiteSpace and LineTerminator.  The five that have an escape in a       *)
(* string are written so; every other one, line tabulation and the 19      *)
(* characters outside ASCII, is the token that names its code point.  No   *)
(* word token of the model has that form.                                  *)
(***************************************************************************)
Terminators == {".", "!", "?"}
Whitespace ==
    {" ", "\n", "\t", "\r", "\f", "U+000B", "U+00A0", "U+1680",
     "U+2000", "U+2001", "U+2002", "U+2003", "U+2004", "U+2005", "U+2006",
     "U+2007", "U+2008", "U+2009", "U+200A", "U+2028", "U+2029", "U+202F",
     "U+205F", "U+3000", "U+FEFF"}

RECURSIVE TrimStart(_)
TrimStart(t) ==
    IF t # <<>> /\ Head(t) \in Whitespace THEN TrimStart(Tail(t)) ELSE t

RECURSIVE TrimEnd(_)
TrimEnd(t) ==
    IF t # <<>> /\ t[Len(t)] \in Whitespace
    THEN TrimEnd(SubSeq(t, 1, Len(t) - 1)) ELSE t

Trim(t) == TrimEnd(TrimStart(t))

\* content.split(/[.!?]/): the pieces between terminators (n terminators give
\* n + 1 pieces, empty ones included)
RECURSIVE SplitSentences(_)
SplitSentences(t) ==
    IF \A i \in 1..Len(t) : t[i] \notin Terminators THEN <<t>>
    ELSE LET i == CHOOSE k \in 1..Len(t) :
                     /\ t[k] \in Terminators
                     /\ \A j \in 1..(k - 1) : t[j] \notin Terminators
         IN  <<SubSeq(t, 1, i - 1)>> \o SplitSentences(SubSeq(t, i + 1, Len(t)))

RECURSIVE JoinWith(_, _)
JoinWith(parts, sep) ==
    IF parts = <<>> THEN <<>>
    ELSE IF Len(parts) = 1 THEN parts[1]
         ELSE parts[1] \o <<sep>> \o JoinWith(Tail(parts), sep)

NonBlank(s) == Len(Trim(s)) > 0

\* memory.ts 154-158: the first non-blank sentence of a message, trimmed, plus '.'
FirstSentence(content) ==
    LET nonEmpty == SelectSeq(SplitSentences(content), NonBlank)
    IN  IF nonEmpty # <<>> THEN Trim(nonEmpty[1]) \o <<".">> ELSE <<>>

(***************************************************************************)
(* Messages and the conversation record (memory.ts, ConversationState).    *)
(***************************************************************************)
Message(role, content) == [role |-> role, content |-> content]

IsUserMessage(m) == m.role = "user"
NonEmptyText(s) == Len(s) > 0

RECURSIVE MapContent(_)
MapContent(msgs) ==
    IF msgs = <<>> THEN <<>> ELSE <<Head(msgs).content>> \o MapContent(Tail(msgs))

RECURSIVE MapFirstSentence(_)
MapFirstSentence(texts) ==
    IF texts = <<>> THEN <<>>
    ELSE <<FirstSentence(Head(texts))>> \o MapFirstSentence(Tail(texts))

generateConversationSummary(msgs) ==
    LET userMessages == MapContent(SelectSeq(msgs, IsUserMessage))
        sentences == SelectSeq(MapFirstSentence(userMessages), NonEmptyText)
        topicSentences == SliceFrom(sentences, 0 - SUMMARY_TOPIC_SENTENCES)
    IN  IF Len(userMessages) = 0 THEN <<"No conversation history", ".">>
        ELSE <<"The conversation covers these topics:", " ">>
                 \o JoinWith(topicSentences, " ")

\* JavaScript truthiness of an optional string: undefined and '' are falsy
Truthy(optText) == IsSome(optText) /\ Val(optText) # <<>>

\* (mutation) pruning keeps the oldest messages and drops the newest
PruneTo_KeepsOldest(msgs, max) ==
    IF Len(msgs) > max THEN SubSeq(msgs, 1, max) ELSE msgs

\* (mutation) the leading system message is kept on top of max recent ones
PruneTo_ForgetsSystemSlot(msgs, max) ==
    IF Len(msgs) > max
    THEN LET systemMessage ==
                 IF msgs[1].role = "system" THEN <<msgs[1]>> ELSE <<>>
         IN  systemMessage \o SliceFrom(msgs, 0 - max)
    ELSE msgs

\* (mutation) pruning keeps the most recent messages whatever their role
PruneTo_EvictsByAgeOnly(msgs, max) ==
    IF Len(msgs) > max THEN SliceFrom(msgs, 0 - max) ELSE msgs

\* memory.ts 95-101, for a maximum of max messages
PruneTo(msgs, max) ==
    IF Len(msgs) > max
    THEN LET systemMessage ==
                 IF msgs[1].role = "system" THEN <<msgs[1]>> ELSE <<>>
             recentMessages ==
                 SliceFrom(msgs, 0 - max + Len(systemMessage))
         IN  systemMessage \o recentMessages
    ELSE msgs

\* memory.ts 95-101 with this.MAX_MESSAGES_TO_KEEP
PruneMessages(msgs) == PruneTo(msgs, MAX_MESSAGES_TO_KEEP)

\* (mutation) the summary waits for one message more than the threshold
SummaryAfter_StrictThreshold(summary, pruned, threshold) ==
    IF Len(pruned) > threshold /\ ~Truthy(summary)
    THEN Some(generateConversationSummary(pruned))
    ELSE summary

\* memory.ts 103-106: the summary field after the append
SummaryAfter(summary, pruned, threshold) ==
    IF Len(pruned) >= threshold /\ ~Truthy(summary)
    THEN Some(generateConversationSummary(pruned))
    ELSE summary

NewConversation(t) ==
    [messages |-> <<>>, summary |-> None, createdAt |-> t, updatedAt |-> t]

\* memory.ts 91-106 and 62: push, prune, summarize, stamp
UpdatedConversationWith(conversation, message, t, max, threshold) ==
    LET pushed == Append(conversation.messages, message)
        pruned == PruneTo(pushed, max)
        summary == SummaryAfter(conversation.summary, pruned, threshold)
    IN  [messages |-> pruned, summary |-> summary,
         createdAt |-> conversation.createdAt, updatedAt |-> t]

\* the same with the manager's own two limits
UpdatedConversation(conversation, message, t) ==
    UpdatedConversationWith(conversation, message, t,
                            MAX_MESSAGES_TO_KEEP, SUMMARY_MESSAGE_THRESHOLD)

(***************************************************************************)
(* The keyed store (redis.ts).  A slot holds the serialized record and the *)
(* time at which it expires.  JSON.stringify drops an undefined summary;   *)
(* JSON.parse gives back an object in which that property is missing.      *)
(***************************************************************************)
getRedisKey(conversationId) == "conv:" \o conversationId

JSONStringify(state) ==
    IF IsSome(state.summary)
    THEN [messages |-> state.messages, summary |-> Val(state.summary),
          createdAt |-> state.createdAt, updatedAt |-> state.updatedAt]
    ELSE [messages |-> state.messages,
          createdAt |-> state.createdAt, updatedAt |-> state.updatedAt]

JSONParse(text) ==
    [messages |-> text.messages,
     summary |-> IF "summary" \in DOMAIN text THEN Some(text.summary) ELSE None,
     createdAt |-> text.createdAt, updatedAt |-> text.updatedAt]

\* kv.get: an expired or missing slot reads as null
KvGet(store, key, t) ==
    IF IsSome(store[key]) /\ Val(store[key]).expireAt > t
    THEN Some(Val(store[key]).value) ELSE None

\* (mutation) a slot that is already set keeps its time to live
KvSet_KeepsExpiry(store, key, value, ex, t) ==
    [store EXCEPT ![key] =
        Some([value |-> value,
              expireAt |-> IF IsSome(store[key]) /\ Val(store[key]).expireAt > t
                           THEN Val(store[key]).expireAt ELSE t + ex])]

\* kv.set(key, value, {ex})
KvSet(store, key, value, ex, t) ==
    [store EXCEPT ![key] = Some([value |-> value, expireAt |-> t + ex])]

\* redis.ts getAndParse: a failing read is caught and reads as null
getAndParse(store, key, t, readOk) ==
    IF readOk /\ IsSome(KvGet(store, key, t))
    THEN Some(JSONParse(Val(KvGet(store, key, t)))) ELSE None

\* MemoryManager.loadConversation
loadConversation(store, conversationId, t, readOk) ==
    getAndParse(store, getRedisKey(conversationId), t, readOk)

\* redis.ts 31-39: setWithExpiry(key, value, expiryInSeconds), the write
\* landing at t; a kv.set that raises is caught and reported as false
setWithExpiry(store, key, value, expiryInSeconds, t, writeOk) ==
    IF writeOk
    THEN [store |-> KvSet(store, key, JSONStringify(value), expiryInSeconds, t),
          result |-> TRUE]
    ELSE [store |-> store, result |-> FALSE]

\* memory.ts 57-69: saveConversation(conversationId, state), called at t,
\* which stamps the state, its write landing at tSet
saveConversation(store, conversationId, state, t, tSet, writeOk) ==
    setWithExpiry(store, getRedisKey(conversationId),
                  [state EXCEPT !.updatedAt = t], MEMORY_EXPIRY_SECONDS,
                  tSet, writeOk)

\* (mutation) the write starts from the record stored at the time of the
\* write, as under a per-key lock
saveAfterLoad_Serialized(store, conversationId, loaded, message, t, tSet, writeOk, max) ==
    LET current == loadConversation(store, conversationId, tSet, TRUE)
        conversation ==
            IF IsSome(current) THEN Val(current) ELSE NewConversation(t)
        updated == UpdatedConversationWith(conversation, message, t, max,
                                           SUMMARY_MESSAGE_THRESHOLD)
    IN  IF writeOk
        THEN [store |-> KvSet(store, getRedisKey(conversationId),
                              JSONStringify(updated), MEMORY_EXPIRY_SECONDS,
                              tSet),
              result |-> Some(updated)]
        ELSE [store |-> store, result |-> None]

\* (mutation) the updated conversation is returned whether or not it was
\* saved
saveAfterLoad_ReportsSuccess(store, conversationId, loaded, message, t, tSet, writeOk, max) ==
    LET conversation == IF IsSome(loaded) THEN Val(loaded) ELSE NewConversation(t)
        updated == UpdatedConversationWith(conversation, message, t, max,
                                           SUMMARY_MESSAGE_THRESHOLD)
    IN  IF writeOk
        THEN [store |-> KvSet(store, getRedisKey(conversationId),
                              JSONStringify(updated), MEMORY_EXPIRY_SECONDS,
                              tSet),
              result |-> Some(updated)]
        ELSE [store |-> store, result |-> Some(updated)]

\* memory.ts 83-110: addMessage after its load settled with loaded at time
\* t, where the record is built and stamped; its kv.set lands at time tSet,
\* from which the expiry counts.  [store, result], result is the updated
\* conversation, or null when the write failed (the store is then unchanged)
saveAfterLoad(store, conversationId, loaded, message, t, tSet, writeOk, max) ==
    LET conversation == IF IsSome(loaded) THEN Val(loaded) ELSE NewConversation(t)
        updated == UpdatedConversationWith(conversation, message, t, max,
                                           SUMMARY_MESSAGE_THRESHOLD)
        saved == saveConversation(store, conversationId, updated, t, tSet,
                                  writeOk)
    IN  [store |-> saved.store,
         result |-> IF saved.result THEN Some(updated) ELSE None]

\* MemoryManager.addMessage: the load, then the rest
addMessageWith(store, conversationId, message, t, readOk, writeOk, max) ==
    saveAfterLoad(store, conversationId,
                  loadConversation(store, conversationId, t, readOk),
                  message, t, t, writeOk, max)

\* MemoryManager.addMessage with this.MAX_MESSAGES_TO_KEEP
addMessage(store, conversationId, message, t, readOk, writeOk) ==
    addMessageWith(store, conversationId, message, t, readOk, writeOk,
                   MAX_MESSAGES_TO_KEEP)

\* (mutation) del empties the whole store
KvDel_FlushAll(store, key) == [k \in DOMAIN store |-> None]

\* (mutation) del leaves the record in place
KvDel_KeepsRecord(store, key) == store

\* kv.del: the key is absent afterwards, whether or not it was present
KvDel(store, key) == [store EXCEPT ![key] = None]

\* redis.ts 61-69: deleteKey(key); a kv.del that raises is caught and
\* reported as false
deleteKey(store, key, delOk) ==
    IF delOk THEN [store |-> KvDel(store, key), result |-> TRUE]
    ELSE [store |-> store, result |-> FALSE]

\* (mutation) the answer is the number of keys that del removed
deleteConversation_ReportsRemoved(store, conversationId, delOk) ==
    IF delOk
    THEN [store |-> [store EXCEPT ![getRedisKey(conversationId)] = None],
          result |-> IsSome(store[getRedisKey(conversationId)])]
    ELSE [store |-> store, result |-> FALSE]

\* MemoryManager.deleteConversation: [store, result]; a del that raised
\* is caught and answered with false
deleteConversation(store, conversationId, delOk) ==
    IF delOk
    THEN [store |-> KvDel(store, getRedisKey(conversationId)), result |-> TRUE]
    ELSE [store |-> store, result |-> FALSE]

(***************************************************************************)
(* config.ts generateSystemPrompt.  The formatted date and time are one    *)
(* token: the clock does not advance during a call.                        *)
(***************************************************************************)
BaseSystemPrompt ==
    <<"You are a helpful AI assistant", ".", " ",
      "The current time is <time> on <date>", ".", " ",
      "You have access to the internet and can search for current information when needed",
      ".">>

generateSystemPrompt(memory) ==
    IF IsSome(memory) /\ Val(memory) # <<>> /\ Trim(Val(memory)) # <<>>
    THEN BaseSystemPrompt
             \o <<"\n", "\n",
                  "Here's a summary of our previous conversation that may be relevant to this interaction:",
                  "\n">>
             \o Val(memory)
    ELSE BaseSystemPrompt

(***************************************************************************)
(* The literals of client.ts (and of the providers' local recovery).       *)
(***************************************************************************)
\* client.ts 158; the providers' generateResponse return the same literal
\* when their retries are exhausted (cohere.ts 121, openrouter.ts 107)
ApologyText ==
    <<"Sorry, I encountered an error while processing your request", ".", " ",
      "Please try again later", ".">>

\* client.ts 273
StreamingApologyText ==
    <<"Sorry, I encountered an error while processing your streaming request",
      ".", " ", "Please try again later", ".">>

(***************************************************************************)
(* Inputs.                                                                 *)
(***************************************************************************)
ConversationIds == {"c1", "c2"}
StoreKeys == {getRedisKey(id) : id \in ConversationIds}
\* the conversation id the client under study was constructed with
conversationId == "c1"
\* the primary provider is provider 0, the i-th fallback is provider i
provider == 0

\* the prompt is data to the client: one text of two sentences
Prompts == { <<"Test prompt", "!", " ", "What is new", "?">> }
SystemPromptOptions == { None, Some(<<"Custom system prompt">>) }

\* onChunk exists only in generateStreamingResponse; it raises on every
\* invocation, or on none.  A custom system prompt is drawn for
\* generateResponse; generateStreamingResponse chooses between it and the
\* generated one with the same statement (client.ts 206, as 103).
Requests ==
    { r \in [mode : {"generate", "stream"},
             prompt : Prompts,
             systemPrompt : SystemPromptOptions,
             temperature : {None},
             maxTokens : {None},
             useMemory : BOOLEAN,
             useSearch : {FALSE},
             onChunkRaises : BOOLEAN] :
          /\ r.mode = "generate" => ~r.onChunkRaises
          /\ IsSome(r.systemPrompt) => r.mode = "generate" }

\* what one call of a provider's buffered generateResponse can do: raise, or
\* return a text (a completion, or the apology it recovers to locally)
ProviderResults ==
    { [status |-> "raised", value |-> <<>>] } \cup
    { [status |-> "returned", value |-> v] :
          v \in { <<"Fallback response">>, ApologyText } }

\* the chunks a provider's stream can yield
Chunks ==
    { [content |-> <<"Stream", " ">>, done |-> FALSE],
      [content |-> <<"test">>, done |-> TRUE] }

\* the history found under the key before the call: the first k messages of
\* a chat, with or without a leading system message, each stored by addMessage
SampleMessage(i, withSystem) ==
    IF withSystem /\ i = 1 THEN Message("system", <<"Be brief", ".">>)
    ELSE IF (i % 2 = 1) = ~withSystem
         THEN Message("user", <<"Earlier question", " ", "?", " ", "More">>)
         ELSE Message("assistant", <<"Earlier answer">>)

EmptyStore == [k \in StoreKeys |-> None]

RECURSIVE StoreAfter(_, _)
StoreAfter(k, withSystem) ==
    IF k = 0 THEN EmptyStore
    ELSE addMessage(StoreAfter(k - 1, withSystem), conversationId,
                    SampleMessage(k, withSystem), 0, TRUE, TRUE).store

(***************************************************************************)
(* State.                                                                  *)
(***************************************************************************)
VARIABLES
    kv,                   \* the keyed store: key -> optional [value, expireAt]
    now,                  \* Date.now(), in seconds
    fallbackProviders,    \* LLMClient.fallbackProviders
    pc,                   \* position of the call in generate(Streaming)Response
    req,                  \* the arguments of the call
    messages,             \* local: messages
    memoryContext,        \* local: memoryContext
    enhancedSystemPrompt, \* local: enhancedSystemPrompt
    fbIndex,              \* position of the for-of loop over fallbackProviders
    fullResponse,         \* local: fullResponse
    fallbackResponse,     \* local: fallbackResponse
    invocations,          \* log: every provider call of this client call
    chunksDelivered,      \* log: every onChunk(content, done) invocation
    memoryWrites,         \* log: every memoryManager.addMessage of this call
    outcome,              \* how the call ended: returned a value, or raised
    historyRead,          \* log: how the call's loadConversation read ended
    appended,             \* per conversation: the messages appended to the
                          \* stored record since it was created
    maxKeep,              \* the configured maximum number of stored messages
    lastCall,             \* the last memory-manager or factory call
    apiKeys,              \* env: the providers whose API key is set
    providers,            \* LLMFactory.providers: key -> instance
    client,               \* the LLMClient last constructed
    retry,                \* the withRetry call in progress
    search,               \* the LLMClient.searchInternet call in progress
    inflight,             \* addMessage calls running side by side
    stream,               \* the provider call in progress
    pendingSet            \* the client's addMessage whose kv.set is pending

vars == <<kv, now, fallbackProviders, pc, req, messages, memoryContext,
          enhancedSystemPrompt, fbIndex, fullResponse, fallbackResponse,
          invocations, chunksDelivered, memoryWrites, outcome, historyRead,
          appended, maxKeep, lastCall, apiKeys, providers, client, retry,
          search, inflight, stream, pendingSet>>

\* state that a client call never touches
others == <<appended, maxKeep, lastCall, apiKeys, providers, client, retry,
           search, inflight, stream>>

locals == <<messages, memoryContext, enhancedSystemPrompt>>
logs == <<invocations, chunksDelivered, memoryWrites>>

NoRequest ==
    [mode |-> "none", prompt |-> <<>>, systemPrompt |-> None,
     temperature |-> None, maxTokens |-> None, useMemory |-> FALSE,
     useSearch |-> FALSE, onChunkRaises |-> FALSE]

NoOutcome == [kind |-> "none", value |-> <<>>]

NoCall == [op |-> "none"]
NoClient == None
NoRetry == [status |-> "none"]
NoSearch == [status |-> "none"]
NoAppends == <<>>
NoStream == [status |-> "none"]
NoPendingSet == None
NothingAppended == [id \in ConversationIds |-> <<>>]
EmptyCache == <<>>

\* no memory-manager, factory or withRetry call has been made
OthersIdle ==
    /\ appended = NothingAppended
    /\ maxKeep = MAX_MESSAGES_TO_KEEP
    /\ lastCall = NoCall
    /\ apiKeys = {}
    /\ providers = EmptyCache
    /\ client = NoClient
    /\ retry = NoRetry
    /\ search = NoSearch
    /\ inflight = NoAppends
    /\ stream = NoStream

Init ==
    /\ kv \in { StoreAfter(k, withSystem) :
                    k \in 0..MaxHistory, withSystem \in BOOLEAN }
    /\ now = 0
    /\ fallbackProviders \in { [i \in 1..n |-> i] : n \in 0..MaxFallbacks }
    /\ pc = "idle"
    /\ req = NoRequest
    /\ messages = <<>>
    /\ memoryContext = None
    /\ enhancedSystemPrompt = <<>>
    /\ fbIndex = 0
    /\ fullResponse = <<>>
    /\ fallbackResponse = <<>>
    /\ invocations = <<>>
    /\ chunksDelivered = <<>>
    /\ memoryWrites = <<>>
    /\ outcome = NoOutcome
    /\ historyRead = "none"
    /\ pendingSet = NoPendingSet
    /\ OthersIdle

(***************************************************************************)
(* LLMClient: pieces shared by generateResponse and                        *)
(* generateStreamingResponse.                                              *)
(***************************************************************************)
\* the options object handed to a provider (client.ts 107-113, 131-137,
\* 213-219, 243-249)
ProviderOptions ==
    [systemPrompt |-> enhancedSystemPrompt, messages |-> messages,
     temperature |-> req.temperature, maxTokens |-> req.maxTokens,
     useSearch |-> req.useSearch]

Invocation(p, kind, status, value) ==
    [provider |-> p, kind |-> kind, options |-> ProviderOptions,
     status |-> status, value |-> value, chunks |-> <<>>]

\* memory.ts 80-81 as the client runs it: addMessage's kv.get settles
\* (loadConversation, readOk) at this moment; the record is built from what
\* it read and handed to kv.set, which is then pending.  faithful: the
\* record is built from the stored one (the read succeeded, or there was
\* nothing to read); returns: the call returns the message's content once
\* the write has settled.
PendingSet(message, readOk, returns) ==
    Some([message |-> message,
          loaded |-> loadConversation(kv, conversationId, now, readOk),
          at |-> now,
          faithful |->
              \/ readOk
              \/ ~IsSome(loadConversation(kv, conversationId, now, TRUE)),
          returns |-> returns])

\* an entry of the addMessage log: what was appended, whether the write
\* succeeded, whether a record that was written had been built from the
\* stored one, and where the provider calls stood at that moment
MemoryWrite(message, faithful, saved) ==
    [message |-> message, saved |-> saved,
     fromStored |-> faithful \/ ~saved,
     invocationsBefore |-> Len(invocations),
     streamOpen |-> \E i \in 1..Len(invocations) : invocations[i].status = "open"]

\* (mutation) the fallback loop is entered only for two or more fallbacks
AfterPrimaryFailure_OffByOne(chain) ==
    IF Len(chain) > 1 THEN "fallback" ELSE "allFailed"

\* where the catch block of the primary attempt goes (client.ts 126-154,
\* 235-269): into the fallback loop, or on to the rethrow
AfterPrimaryFailure(chain) ==
    IF Len(chain) > 0 THEN "fallback" ELSE "allFailed"

\* where the catch block of fallback i goes (client.ts 146-150, 261-265):
\* to the next fallback, or out of the loop to the rethrow
AfterFallbackFailure(i, chain) ==
    IF i < Len(chain) THEN "fallback" ELSE "allFailed"

\* (mutation) the loop does not advance: the same fallback is tried again
NextFallbackIndex_Stuck(i) == i

\* the position of the for-of loop after fallback i failed
NextFallbackIndex(i) == i + 1

\* (mutation) the fallback's buffer starts from the failed attempt's output
FreshFallbackResponse_KeepPartial(primaryPartial) == primaryPartial

\* client.ts 240: let fallbackResponse = ''
FreshFallbackResponse(primaryPartial) == <<>>

\* (mutation) the chunk is put in front of the buffer
Accumulate_Prepend(buffer, chunk) == chunk.content \o buffer

\* client.ts 220, 250: the accumulator after one chunk
Accumulate(buffer, chunk) == buffer \o chunk.content

\* (mutation) the callback is never told that the stream is done
Delivered_NeverDone(chunk) ==
    Append(chunksDelivered,
           [content |-> chunk.content, done |-> FALSE,
            attempt |-> Len(invocations)])

\* client.ts 221, 251: onChunk(chunk.content, chunk.done)
Delivered(chunk) ==
    Append(chunksDelivered,
           [content |-> chunk.content, done |-> chunk.done,
            attempt |-> Len(invocations)])

\* the last invocation's record, with one more chunk or another status
WithChunk(chunk) ==
    [invocations EXCEPT ![Len(invocations)].chunks = Append(@, chunk)]
WithStatus(status) ==
    [invocations EXCEPT ![Len(invocations)].status = status]

(***************************************************************************)
(* Entry: client.ts 78-103 and 181-206 (the same text in both methods).    *)
(***************************************************************************)
Call(r) ==
    /\ pc = "idle"
    /\ req' = r
    /\ pc' = "load"
    /\ UNCHANGED <<kv, now, others, pendingSet, historyRead, fallbackProviders, locals,
                   fbIndex, fullResponse,
                   fallbackResponse, logs, outcome>>

\* client.ts 82-95 / 185-198
LoadHistory ==
    /\ pc = "load"
    /\ \E readOk \in BOOLEAN :
         LET conversation ==
                 IF req.useMemory
                 THEN loadConversation(kv, conversationId, now, readOk)
                 ELSE None
             userMessage == Message("user", req.prompt)
         IN  /\ messages' =
                    Append(IF IsSome(conversation)
                           THEN Val(conversation).messages ELSE <<>>,
                           userMessage)
             /\ historyRead' = IF ~req.useMemory THEN "none"
                               ELSE IF readOk THEN "ok" ELSE "failed"
             /\ memoryContext' =
                    IF IsSome(conversation) THEN Val(conversation).summary
                    ELSE None
    /\ pc' = "persistUser"
    /\ UNCHANGED <<kv, now, others, pendingSet, fallbackProviders, req,
                   enhancedSystemPrompt,
                   fbIndex, fullResponse, fallbackResponse, logs, outcome>>

\* the step of the call that follows the user message's write
AfterPersist == IF req.mode = "generate" THEN "primary" ELSE "primaryStream"

\* (mutation) the user's message is not written before the provider call
PersistUserMessage_Skipped ==
    /\ pc = "persistUser"
    /\ enhancedSystemPrompt' =
           IF Truthy(req.systemPrompt) THEN Val(req.systemPrompt)
           ELSE generateSystemPrompt(memoryContext)
    /\ pc' = AfterPersist
    /\ UNCHANGED <<kv, now, others, pendingSet, historyRead,
                   fallbackProviders, req, messages, memoryContext,
                   fbIndex, fullResponse, fallbackResponse, logs, outcome>>

\* client.ts 97-103 / 200-206, up to the await of addMessage's kv.set
\* (memory.ts 109).  Whatever happens to the key while the write is pending
\* is overwritten when it lands.
PersistUserMessage ==
    /\ pc = "persistUser"
    /\ IF req.useMemory
       THEN /\ \E readOk \in BOOLEAN :
                  pendingSet' =
                      PendingSet(Message("user", req.prompt), readOk, FALSE)
            /\ pc' = "awaitSet"
            /\ UNCHANGED enhancedSystemPrompt
       ELSE /\ enhancedSystemPrompt' =
                   IF Truthy(req.systemPrompt) THEN Val(req.systemPrompt)
                   ELSE generateSystemPrompt(memoryContext)
            /\ pc' = AfterPersist
            /\ UNCHANGED pendingSet
    /\ UNCHANGED <<kv, now, others, historyRead, fallbackProviders, req,
                   messages, memoryContext,
                   fbIndex, fullResponse, fallbackResponse, logs, outcome>>

\* (mutation) the response is saved whether or not memory is enabled
SaveAndReturn_AlwaysSaves(response) ==
    /\ \E readOk \in BOOLEAN :
         pendingSet' = PendingSet(Message("assistant", response), readOk, TRUE)
    /\ pc' = "awaitSet"
    /\ UNCHANGED <<kv, memoryWrites, outcome>>

\* client.ts 116-121, 140-145, 225-230, 255-260: save the assistant's
\* response to memory and return it; with memory on, up to the await of
\* addMessage's kv.set
SaveAndReturn(response) ==
    IF req.useMemory
    THEN /\ \E readOk \in BOOLEAN :
              pendingSet' =
                  PendingSet(Message("assistant", response), readOk, TRUE)
         /\ pc' = "awaitSet"
         /\ UNCHANGED <<kv, memoryWrites, outcome>>
    ELSE /\ outcome' = [kind |-> "returned", value |-> response]
         /\ pc' = "done"
         /\ UNCHANGED <<kv, memoryWrites, pendingSet>>

\* (mutation) a failed write of the user's message ends the call
AddMessageSettles_RaisesOnFailure ==
    /\ pc = "awaitSet"
    /\ \E writeOk \in BOOLEAN :
         LET mine == Val(pendingSet)
             saved == saveAfterLoad(kv, conversationId, mine.loaded,
                                    mine.message, mine.at, now, writeOk,
                                    MAX_MESSAGES_TO_KEEP)
         IN  /\ kv' = saved.store
             /\ memoryWrites' =
                    Append(memoryWrites,
                           MemoryWrite(mine.message, mine.faithful,
                                       IsSome(saved.result)))
             /\ IF mine.returns
                THEN /\ outcome' =
                            [kind |-> "returned", value |-> mine.message.content]
                     /\ pc' = "done"
                     /\ UNCHANGED enhancedSystemPrompt
                ELSE /\ enhancedSystemPrompt' =
                            IF Truthy(req.systemPrompt)
                            THEN Val(req.systemPrompt)
                            ELSE generateSystemPrompt(memoryContext)
                     /\ pc' = IF IsSome(saved.result) THEN AfterPersist
                              ELSE "allFailed"
                     /\ UNCHANGED outcome
    /\ pendingSet' = NoPendingSet
    /\ UNCHANGED <<now, others, historyRead, fallbackProviders, req,
                   messages, memoryContext, fbIndex, fullResponse,
                   fallbackResponse, invocations, chunksDelivered>>

\* memory.ts 109-111 and the statement after the client's await: the pending
\* kv.set lands (the expiry counts from that moment) or fails, addMessage
\* returns the record or null, which the client does not look at, and the
\* call goes on: to the provider after the user's message (client.ts 103 /
\* 206), to its return after the assistant's (client.ts 121, 145, 230, 260)
AddMessageSettles ==
    /\ pc = "awaitSet"
    /\ \E writeOk \in BOOLEAN :
         LET mine == Val(pendingSet)
             saved == saveAfterLoad(kv, conversationId, mine.loaded,
                                    mine.message, mine.at, now, writeOk,
                                    MAX_MESSAGES_TO_KEEP)
         IN  /\ kv' = saved.store
             /\ memoryWrites' =
                    Append(memoryWrites,
                           MemoryWrite(mine.message, mine.faithful,
                                       IsSome(saved.result)))
             /\ IF mine.returns
                THEN /\ outcome' =
                            [kind |-> "returned", value |-> mine.message.content]
                     /\ pc' = "done"
                     /\ UNCHANGED enhancedSystemPrompt
                ELSE /\ enhancedSystemPrompt' =
                            IF Truthy(req.systemPrompt)
                            THEN Val(req.systemPrompt)
                            ELSE generateSystemPrompt(memoryContext)
                     /\ pc' = AfterPersist
                     /\ UNCHANGED outcome
    /\ pendingSet' = NoPendingSet
    /\ UNCHANGED <<now, others, historyRead, fallbackProviders, req,
                   messages, memoryContext, fbIndex, fullResponse,
                   fallbackResponse, invocations, chunksDelivered>>

(***************************************************************************)
(* LLMClient.generateResponse, client.ts 105-159.                          *)
(***************************************************************************)
\* client.ts 106-113, and the catch at 122-126
GeneratePrimary ==
    /\ pc = "primary"
    /\ \E out \in ProviderResults :
         /\ invocations' =
                Append(invocations,
                       Invocation(provider, "generate", out.status, out.value))
         /\ IF out.status = "returned"
            THEN /\ fullResponse' = out.value
                 /\ pc' = "savePrimary"
                 /\ UNCHANGED fbIndex
            ELSE /\ pc' = AfterPrimaryFailure(fallbackProviders)
                 /\ fbIndex' = 1
                 /\ UNCHANGED fullResponse
    /\ UNCHANGED <<kv, now, others, pendingSet, historyRead, fallbackProviders, req,
                   locals, fallbackResponse,
                   chunksDelivered, memoryWrites, outcome>>

\* client.ts 115-121
SavePrimaryResponse ==
    /\ pc = "savePrimary"
    /\ SaveAndReturn(fullResponse)
    /\ UNCHANGED <<now, others, historyRead, fallbackProviders, req, locals,
                   fbIndex, fullResponse,
                   fallbackResponse, invocations, chunksDelivered>>

\* client.ts 127-137, and the catch at 146-149
GenerateFallback ==
    /\ pc = "fallback"
    /\ req.mode = "generate"
    /\ \E out \in ProviderResults :
         /\ invocations' =
                Append(invocations,
                       Invocation(fallbackProviders[fbIndex], "generate",
                                  out.status, out.value))
         /\ IF out.status = "returned"
            THEN /\ fallbackResponse' = out.value
                 /\ pc' = "saveFallback"
                 /\ UNCHANGED fbIndex
            ELSE /\ pc' = AfterFallbackFailure(fbIndex, fallbackProviders)
                 /\ fbIndex' = NextFallbackIndex(fbIndex)
                 /\ UNCHANGED fallbackResponse
    /\ UNCHANGED <<kv, now, others, pendingSet, historyRead, fallbackProviders, req,
                   locals, fullResponse,
                   chunksDelivered, memoryWrites, outcome>>

\* (mutation) a fallback's response is returned without being saved
SaveFallbackResponse_NotSaved ==
    /\ pc = "saveFallback"
    /\ outcome' = [kind |-> "returned", value |-> fallbackResponse]
    /\ pc' = "done"
    /\ UNCHANGED <<kv, now, others, pendingSet, historyRead, fallbackProviders, req,
                   locals, fbIndex, fullResponse,
                   fallbackResponse, logs>>

\* client.ts 139-145
SaveFallbackResponse ==
    /\ pc = "saveFallback"
    /\ SaveAndReturn(fallbackResponse)
    /\ UNCHANGED <<now, others, historyRead, fallbackProviders, req, locals,
                   fbIndex, fullResponse,
                   fallbackResponse, invocations, chunksDelivered>>

\* (mutation) no outer catch: the primary's error leaves the method
GenerateAllFailed_Rethrow ==
    /\ pc = "allFailed"
    /\ req.mode = "generate"
    /\ outcome' = [kind |-> "raised", value |-> <<>>]
    /\ pc' = "done"
    /\ UNCHANGED <<kv, now, others, pendingSet, historyRead, fallbackProviders, req,
                   locals, fbIndex,
                   fullResponse, fallbackResponse, logs>>

\* (mutation) the apology is saved as the assistant's turn before it is
\* returned
GenerateAllFailed_SavesApology ==
    /\ pc = "allFailed"
    /\ req.mode = "generate"
    /\ SaveAndReturn(ApologyText)
    /\ UNCHANGED <<now, others, historyRead, fallbackProviders, req, locals,
                   fbIndex, fullResponse,
                   fallbackResponse, invocations, chunksDelivered>>

\* client.ts 153-159: rethrow, caught by the outer catch
GenerateAllFailed ==
    /\ pc = "allFailed"
    /\ req.mode = "generate"
    /\ outcome' = [kind |-> "returned", value |-> ApologyText]
    /\ pc' = "done"
    /\ UNCHANGED <<kv, now, others, pendingSet, historyRead, fallbackProviders, req,
                   locals, fbIndex,
                   fullResponse, fallbackResponse, logs>>

(***************************************************************************)
(* LLMClient.generateStreamingResponse, client.ts 208-276.                 *)
(* A provider's stream is driven one step at a time: it yields a chunk, is *)
(* exhausted, or raises.  A raising onChunk callback raises inside the     *)
(* for-await loop and is caught like a provider failure.                   *)
(***************************************************************************)
\* client.ts 210-219
StreamPrimaryOpen ==
    /\ pc = "primaryStream"
    /\ fullResponse' = <<>>
    /\ invocations' =
           Append(invocations, Invocation(provider, "stream", "open", <<>>))
    /\ pc' = "primaryChunks"
    /\ UNCHANGED <<kv, now, others, pendingSet, historyRead, fallbackProviders, req,
                   locals, fbIndex,
                   fallbackResponse, chunksDelivered, memoryWrites, outcome>>

\* client.ts 213-222: one iteration of the for-await loop
StreamPrimaryChunk ==
    /\ pc = "primaryChunks"
    /\ Len(chunksDelivered) < MaxChunks
    /\ \E chunk \in Chunks :
         /\ fullResponse' = Accumulate(fullResponse, chunk)
         /\ chunksDelivered' = Delivered(chunk)
         /\ IF req.onChunkRaises
            THEN /\ invocations' =
                        [WithChunk(chunk) EXCEPT
                             ![Len(invocations)].status = "abandoned"]
                 /\ pc' = AfterPrimaryFailure(fallbackProviders)
                 /\ fbIndex' = 1
            ELSE /\ invocations' = WithChunk(chunk)
                 /\ UNCHANGED <<pc, fbIndex>>
    /\ UNCHANGED <<kv, now, others, pendingSet, historyRead, fallbackProviders, req,
                   locals, fallbackResponse,
                   memoryWrites, outcome>>

\* the primary's sequence is exhausted: the loop ends normally
StreamPrimaryEnd ==
    /\ pc = "primaryChunks"
    /\ invocations' = WithStatus("completed")
    /\ pc' = "savePrimaryStream"
    /\ UNCHANGED <<kv, now, others, pendingSet, historyRead, fallbackProviders, req,
                   locals, fbIndex,
                   fullResponse, fallbackResponse, chunksDelivered,
                   memoryWrites, outcome>>

\* (mutation) the partial output of a stream that raised is saved and returned
StreamPrimaryRaise_SavesPartial ==
    /\ pc = "primaryChunks"
    /\ invocations' = WithStatus("raised")
    /\ pc' = "savePrimaryStream"
    /\ UNCHANGED <<kv, now, others, pendingSet, historyRead, fallbackProviders, req,
                   locals, fbIndex,
                   fullResponse, fallbackResponse, chunksDelivered,
                   memoryWrites, outcome>>

\* the primary's sequence raises: client.ts 231-235
StreamPrimaryRaise ==
    /\ pc = "primaryChunks"
    /\ invocations' = WithStatus("raised")
    /\ pc' = AfterPrimaryFailure(fallbackProviders)
    /\ fbIndex' = 1
    /\ UNCHANGED <<kv, now, others, pendingSet, historyRead, fallbackProviders, req,
                   locals, fullResponse,
                   fallbackResponse, chunksDelivered, memoryWrites, outcome>>

\* client.ts 224-230
SavePrimaryStream ==
    /\ pc = "savePrimaryStream"
    /\ SaveAndReturn(fullResponse)
    /\ UNCHANGED <<now, others, historyRead, fallbackProviders, req, locals,
                   fbIndex, fullResponse,
                   fallbackResponse, invocations, chunksDelivered>>

\* client.ts 236-249
StreamFallbackOpen ==
    /\ pc = "fallback"
    /\ req.mode = "stream"
    /\ fallbackResponse' = FreshFallbackResponse(fullResponse)
    /\ invocations' =
           Append(invocations,
                  Invocation(fallbackProviders[fbIndex], "stream", "open", <<>>))
    /\ pc' = "fallbackChunks"
    /\ UNCHANGED <<kv, now, others, pendingSet, historyRead, fallbackProviders, req,
                   locals, fbIndex,
                   fullResponse, chunksDelivered, memoryWrites, outcome>>

\* client.ts 243-252: one iteration of the fallback's for-await loop
StreamFallbackChunk ==
    /\ pc = "fallbackChunks"
    /\ Len(chunksDelivered) < MaxChunks
    /\ \E chunk \in Chunks :
         /\ fallbackResponse' = Accumulate(fallbackResponse, chunk)
         /\ chunksDelivered' = Delivered(chunk)
         /\ IF req.onChunkRaises
            THEN /\ invocations' =
                        [WithChunk(chunk) EXCEPT
                             ![Len(invocations)].status = "abandoned"]
                 /\ pc' = AfterFallbackFailure(fbIndex, fallbackProviders)
                 /\ fbIndex' = NextFallbackIndex(fbIndex)
            ELSE /\ invocations' = WithChunk(chunk)
                 /\ UNCHANGED <<pc, fbIndex>>
    /\ UNCHANGED <<kv, now, others, pendingSet, historyRead, fallbackProviders, req,
                   locals, fullResponse,
                   memoryWrites, outcome>>

StreamFallbackEnd ==
    /\ pc = "fallbackChunks"
    /\ invocations' = WithStatus("completed")
    /\ pc' = "saveFallbackStream"
    /\ UNCHANGED <<kv, now, others, pendingSet, historyRead, fallbackProviders, req,
                   locals, fbIndex,
                   fullResponse, fallbackResponse, chunksDelivered,
                   memoryWrites, outcome>>

\* the fallback's sequence raises: client.ts 261-264
StreamFallbackRaise ==
    /\ pc = "fallbackChunks"
    /\ invocations' = WithStatus("raised")
    /\ pc' = AfterFallbackFailure(fbIndex, fallbackProviders)
    /\ fbIndex' = NextFallbackIndex(fbIndex)
    /\ UNCHANGED <<kv, now, others, pendingSet, historyRead, fallbackProviders, req,
                   locals, fullResponse,
                   fallbackResponse, chunksDelivered, memoryWrites, outcome>>

\* client.ts 254-260
SaveFallbackStream ==
    /\ pc = "saveFallbackStream"
    /\ SaveAndReturn(fallbackResponse)
    /\ UNCHANGED <<now, others, historyRead, fallbackProviders, req, locals,
                   fbIndex, fullResponse,
                   fallbackResponse, invocations, chunksDelivered>>

\* (mutation) no outer catch: the primary stream's error leaves the method
StreamingAllFailed_Rethrow ==
    /\ pc = "allFailed"
    /\ req.mode = "stream"
    /\ outcome' = [kind |-> "raised", value |-> <<>>]
    /\ pc' = "done"
    /\ UNCHANGED <<kv, now, others, pendingSet, historyRead, fallbackProviders, req,
                   locals, fbIndex,
                   fullResponse, fallbackResponse, logs>>

\* client.ts 268-276: rethrow, caught by the outer catch, which calls
\* onChunk(errorMessage, true); if that callback raises, the exception
\* leaves the method
StreamingAllFailed ==
    /\ pc = "allFailed"
    /\ req.mode = "stream"
    /\ chunksDelivered' =
           Append(chunksDelivered,
                  [content |-> StreamingApologyText, done |-> TRUE,
                   attempt |-> 0])
    /\ outcome' =
           IF req.onChunkRaises
           THEN [kind |-> "raised", value |-> <<>>]
           ELSE [kind |-> "returned", value |-> StreamingApologyText]
    /\ pc' = "done"
    /\ UNCHANGED <<kv, now, others, pendingSet, historyRead, fallbackProviders, req,
                   locals, fbIndex,
                   fullResponse, fallbackResponse, invocations, memoryWrites>>

(***************************************************************************)
(* One client call on a store that already holds some history.             *)
(***************************************************************************)
Next ==
    \/ \E r \in Requests : Call(r)
    \/ LoadHistory
    \/ PersistUserMessage
    \/ AddMessageSettles
    \/ GeneratePrimary
    \/ SavePrimaryResponse
    \/ GenerateFallback
    \/ SaveFallbackResponse
    \/ GenerateAllFailed
    \/ StreamPrimaryOpen
    \/ StreamPrimaryChunk
    \/ StreamPrimaryEnd
    \/ StreamPrimaryRaise
    \/ SavePrimaryStream
    \/ StreamFallbackOpen
    \/ StreamFallbackChunk
    \/ StreamFallbackEnd
    \/ StreamFallbackRaise
    \/ SaveFallbackStream
    \/ StreamingAllFailed

Spec == Init /\ [][Next]_vars

(***************************************************************************)
(* Vocabulary of the properties.                                           *)
(***************************************************************************)
Done == pc = "done"
Failed(inv) == inv.status \in {"raised", "abandoned"}
Succeeded(inv) == inv.status \in {"returned", "completed"}
InvocationsOf(p) == { i \in 1..Len(invocations) : invocations[i].provider = p }
AllInvocationsFailed == \A i \in 1..Len(invocations) : Failed(invocations[i])
LastInvocation == invocations[Len(invocations)]

RECURSIVE Concat(_)
Concat(chunks) ==
    IF chunks = <<>> THEN <<>> ELSE Head(chunks).content \o Concat(Tail(chunks))

\* the (content, done) pairs onChunk received while attempt i was running
DeliveredOf(i) ==
    LET mine == SelectSeq(chunksDelivered, LAMBDA d : d.attempt = i)
    IN  [k \in 1..Len(mine) |-> [content |-> mine[k].content, done |-> mine[k].done]]

AssistantWrites ==
    { i \in 1..Len(memoryWrites) : memoryWrites[i].message.role = "assistant" }

\* what a load of the client's conversation returns now
Stored == loadConversation(kv, conversationId, now, TRUE)

(***************************************************************************)
(* C1.  Fallback: when the primary's generate fails (raises) and the       *)
(* single fallback's generate succeeds with value V, generateResponse      *)
(* returns exactly V, and the primary and the fallback were each invoked   *)
(* exactly once during the call.                                           *)
(***************************************************************************)
C1_FallbackResponse ==
    ( /\ Done
      /\ req.mode = "generate"
      /\ Len(fallbackProviders) = 1
      /\ \A i \in InvocationsOf(provider) : invocations[i].status = "raised"
      /\ \A i \in InvocationsOf(fallbackProviders[1]) :
             invocations[i].status = "returned" )
    => /\ Cardinality(InvocationsOf(provider)) = 1
       /\ Cardinality(InvocationsOf(fallbackProviders[1])) = 1
       /\ outcome = [kind |-> "returned", value |-> LastInvocation.value]
       /\ LastInvocation.provider = fallbackProviders[1]

C1_Witness ==
    /\ Done
    /\ req.mode = "generate"
    /\ Len(fallbackProviders) = 1
    /\ Len(invocations) = 2
    /\ invocations[1].provider = provider
    /\ invocations[1].status = "raised"
    /\ invocations[2].provider = fallbackProviders[1]
    /\ invocations[2].status = "returned"
    /\ invocations[2].value = <<"Fallback response">>
    /\ outcome = [kind |-> "returned", value |-> <<"Fallback response">>]

(***************************************************************************)
(* C2.  All providers fail: when the primary and every fallback raise,     *)
(* generateResponse returns the literal apology and raises nothing, for    *)
(* every length of the fallback list, the empty list included.             *)
(***************************************************************************)
C2_AllProvidersFail ==
    (Done /\ req.mode = "generate" /\ AllInvocationsFailed)
    => outcome = [kind |-> "returned", value |-> ApologyText]

C2_Witness ==
    /\ Done
    /\ req.mode = "generate"
    /\ Len(fallbackProviders) = 2
    /\ Len(invocations) = 3
    /\ AllInvocationsFailed
    /\ outcome = [kind |-> "returned", value |-> ApologyText]

(***************************************************************************)
(* C3.  No provider or memory-store failure makes generateResponse or      *)
(* generateStreamingResponse raise: with a callback that does not raise,   *)
(* every call ends by returning a text, which is the output of a provider  *)
(* that succeeded or the literal apology; when every stream failed, the    *)
(* last callback is the apology with done = true.                          *)
(***************************************************************************)
C3_NoExceptionEscapes ==
    (Done /\ (req.mode = "generate" \/ ~req.onChunkRaises))
    => /\ outcome.kind = "returned"
       /\ IF AllInvocationsFailed
          THEN IF req.mode = "generate"
               THEN outcome.value = ApologyText
               ELSE /\ outcome.value = StreamingApologyText
                    /\ chunksDelivered # <<>>
                    /\ LET last == chunksDelivered[Len(chunksDelivered)]
                       IN  last.content = StreamingApologyText /\ last.done
          ELSE /\ Succeeded(LastInvocation)
               /\ outcome.value =
                      IF req.mode = "generate" THEN LastInvocation.value
                      ELSE Concat(LastInvocation.chunks)

C3_Witness ==
    /\ Done
    /\ req.mode = "stream"
    /\ ~req.onChunkRaises
    /\ req.useMemory
    /\ Len(invocations) = 3
    /\ AllInvocationsFailed
    /\ memoryWrites # <<>>
    /\ ~memoryWrites[1].saved
    /\ outcome = [kind |-> "returned", value |-> StreamingApologyText]

(***************************************************************************)
(* C4.  (the claim as stated) A provider whose buffered generate recovers  *)
(* locally and returns the apology text instead of raising is still        *)
(* treated as failed: generateResponse goes on to the fallback providers.  *)
(***************************************************************************)
C4_ApologyCountsAsFailure ==
    ( /\ Done
      /\ req.mode = "generate"
      /\ Len(fallbackProviders) > 0
      /\ invocations[1].status = "returned"
      /\ invocations[1].value = ApologyText )
    => Len(invocations) > 1

(***************************************************************************)
(* C5.  Providers are tried one at a time in the order primary, then the   *)
(* fallback list: an invocation is made only after every earlier one of    *)
(* the call has failed, so the first success ends the call and a primary   *)
(* success invokes no fallback; every invocation of the call receives the  *)
(* same system prompt and message list as the primary.                     *)
(***************************************************************************)
C5_FallbackOrder ==
    /\ Len(invocations) <= 1 + Len(fallbackProviders)
    /\ \A i \in 1..Len(invocations) :
         /\ invocations[i].provider =
                IF i = 1 THEN provider ELSE fallbackProviders[i - 1]
         /\ i < Len(invocations) => Failed(invocations[i])
         /\ invocations[i].options = invocations[1].options
    /\ (Done /\ ~AllInvocationsFailed)
           => /\ Succeeded(LastInvocation)
              /\ outcome.kind = "returned"
              /\ req.mode = "generate" => outcome.value = LastInvocation.value

C5_Witness ==
    /\ Done
    /\ req.mode = "generate"
    /\ Len(fallbackProviders) = 2
    /\ Len(invocations) = 3
    /\ invocations[1].status = "raised"
    /\ invocations[2].status = "raised"
    /\ invocations[3].status = "returned"
    /\ invocations[3].provider = fallbackProviders[2]
    /\ Len(invocations[3].options.messages) > 1
    /\ outcome.value = invocations[3].value

(***************************************************************************)
(* C6.  Streaming aggregation and order: at every moment the callback has  *)
(* received exactly the chunks the provider has yielded so far, once each, *)
(* in the provider's order, with each chunk's content and done flag; a     *)
(* call whose stream completed returns the concatenation of the contents.  *)
(***************************************************************************)
C6_StreamingAggregation ==
    /\ \A i \in 1..Len(invocations) :
         invocations[i].kind = "stream" => DeliveredOf(i) = invocations[i].chunks
    /\ (Done /\ req.mode = "stream" /\ ~AllInvocationsFailed)
           => outcome.value = Concat(LastInvocation.chunks)

C6_Witness ==
    /\ Done
    /\ req.mode = "stream"
    /\ Len(invocations) = 1
    /\ invocations[1].chunks =
           << [content |-> <<"Stream", " ">>, done |-> FALSE],
              [content |-> <<"Stream", " ">>, done |-> FALSE],
              [content |-> <<"test">>, done |-> TRUE] >>
    /\ DeliveredOf(1) = invocations[1].chunks
    /\ outcome = [kind |-> "returned",
                  value |-> <<"Stream", " ", "Stream", " ", "test">>]

(***************************************************************************)
(* C7.  Streaming fallback does not merge attempts: when an earlier stream *)
(* failed after yielding chunks and a later one completed, the returned    *)
(* text and the assistant message written to memory are the concatenation  *)
(* of the completed stream's chunks alone; the chunks of the failed        *)
(* attempts stay delivered to the callback.                                *)
(***************************************************************************)
C7_NoMergeAcrossAttempts ==
    (Done /\ req.mode = "stream" /\ Len(invocations) > 1
          /\ LastInvocation.status = "completed")
    => /\ outcome.value = Concat(LastInvocation.chunks)
       /\ \A w \in AssistantWrites :
            /\ memoryWrites[w].message.content = Concat(LastInvocation.chunks)
            /\ memoryWrites[w].saved =>
                   /\ IsSome(Stored)
                   /\ Val(Stored).messages[Len(Val(Stored).messages)]
                          = Message("assistant", Concat(LastInvocation.chunks))
       /\ \A i \in 1..(Len(invocations) - 1) :
            DeliveredOf(i) = invocations[i].chunks

C7_Witness ==
    /\ Done
    /\ req.mode = "stream"
    /\ req.useMemory
    /\ Len(invocations) = 2
    /\ invocations[1].status = "raised"
    /\ invocations[1].chunks = << [content |-> <<"Stream", " ">>, done |-> FALSE] >>
    /\ invocations[2].status = "completed"
    /\ invocations[2].chunks = << [content |-> <<"test">>, done |-> TRUE] >>
    /\ outcome.value = <<"test">>
    /\ \E w \in AssistantWrites : memoryWrites[w].saved
    /\ Len(chunksDelivered) = 2

(***************************************************************************)
(* C8.  (the claim as stated) A chunk with done = true ends the stream for *)
(* the client: no later chunk of the same stream reaches the callback or   *)
(* the accumulated response.                                               *)
(***************************************************************************)
C8_DoneTerminatesStream ==
    \A j \in 1..Len(chunksDelivered), k \in 1..Len(chunksDelivered) :
        ( /\ j < k
          /\ chunksDelivered[j].attempt # 0
          /\ chunksDelivered[j].attempt = chunksDelivered[k].attempt )
        => ~chunksDelivered[j].done

(***************************************************************************)
(* C9.  In generateStreamingResponse with memory enabled the assistant     *)
(* message is appended at most once per call, only when no stream is open  *)
(* and the latest stream has completed without raising, with the full      *)
(* accumulated buffer of that stream as content; a call that returns a     *)
(* completed stream's output has appended it exactly once.                 *)
(***************************************************************************)
C9_AssistantPersistedOnCompletion ==
    (req.mode = "stream" /\ req.useMemory)
    => /\ Cardinality(AssistantWrites) <= 1
       /\ \A w \in AssistantWrites :
            LET n == memoryWrites[w].invocationsBefore
            IN  /\ ~memoryWrites[w].streamOpen
                /\ n >= 1
                /\ invocations[n].status = "completed"
                /\ memoryWrites[w].message.content = Concat(invocations[n].chunks)
       /\ (Done /\ ~AllInvocationsFailed) => Cardinality(AssistantWrites) = 1
       /\ (pc \in {"primaryChunks", "fallbackChunks"}) => AssistantWrites = {}

C9_Witness ==
    /\ Done
    /\ req.mode = "stream"
    /\ req.useMemory
    /\ Len(invocations) = 2
    /\ invocations[1].status = "raised"
    /\ Len(invocations[1].chunks) = 1
    /\ invocations[2].status = "completed"
    /\ Len(invocations[2].chunks) = 2
    /\ Cardinality(AssistantWrites) = 1
    /\ \A w \in AssistantWrites :
           memoryWrites[w].saved
               /\ memoryWrites[w].message.content = Concat(invocations[2].chunks)

(***************************************************************************)
(* C10.  With memory enabled the user's prompt is appended to the          *)
(* conversation before the first provider call; when that write succeeded  *)
(* and every provider then failed, the stored conversation ends with the   *)
(* user's message after the call.                                          *)
(***************************************************************************)
C10_UserMessagePersistedFirst ==
    req.useMemory
    => /\ (Len(invocations) >= 1) =>
              /\ memoryWrites # <<>>
              /\ memoryWrites[1].message = Message("user", req.prompt)
              /\ memoryWrites[1].invocationsBefore = 0
       /\ (Done /\ AllInvocationsFailed /\ memoryWrites[1].saved) =>
              /\ IsSome(Stored)
              /\ Val(Stored).messages[Len(Val(Stored).messages)]
                     = Message("user", req.prompt)

C10_Witness ==
    /\ Done
    /\ req.useMemory
    /\ Len(fallbackProviders) = 1
    /\ Len(invocations) = 2
    /\ AllInvocationsFailed
    /\ memoryWrites[1].saved
    /\ Len(messages) = MAX_MESSAGES_TO_KEEP + 1
    /\ IsSome(Stored)
    /\ Len(Val(Stored).messages) = MAX_MESSAGES_TO_KEEP
    /\ Val(Stored).messages[Len(Val(Stored).messages)] = Message("user", req.prompt)
    /\ outcome.value \in {ApologyText, StreamingApologyText}


(***************************************************************************)
(* The memory manager on its own: appends, loads and deletes on the keys   *)
(* of the store, one call at a time, each store operation succeeding or    *)
(* raising.                                                                *)
(***************************************************************************)
MaxAppends == 4

\* the messages a caller appends
MemMessages ==
    { Message("system", <<"Be brief", ".">>),
      Message("user", <<"Test message 1", ".", " ", "More">>),
      Message("assistant", <<"Test response 1">>) }

clientVars == <<fallbackProviders, pc, req, messages, memoryContext,
                enhancedSystemPrompt, fbIndex, fullResponse,
                fallbackResponse, invocations, chunksDelivered,
                memoryWrites, outcome, historyRead, pendingSet>>

\* no client call is in progress
ClientIdle ==
    /\ fallbackProviders = <<>>
    /\ pc = "idle"
    /\ req = NoRequest
    /\ messages = <<>>
    /\ memoryContext = None
    /\ enhancedSystemPrompt = <<>>
    /\ fbIndex = 0
    /\ fullResponse = <<>>
    /\ fallbackResponse = <<>>
    /\ invocations = <<>>
    /\ chunksDelivered = <<>>
    /\ memoryWrites = <<>>
    /\ outcome = NoOutcome
    /\ historyRead = "none"
    /\ pendingSet = NoPendingSet

RECURSIVE SumLen(_, _)
SumLen(f, ids) ==
    IF ids = {} THEN 0
    ELSE LET id == CHOOSE x \in ids : TRUE
         IN  Len(f[id]) + SumLen(f, ids \ {id})

\* callers of the manager: a call of one may be awaiting the store while a
\* call of the other runs
Callers == {1, 2}

\* the calls in flight without the one of caller p
Settled(p) ==
    IF DOMAIN inflight = {p} THEN NoAppends
    ELSE [q \in DOMAIN inflight \ {p} |-> inflight[q]]

memOthers == <<now, maxKeep, apiKeys, providers, client, retry, search,
               stream, clientVars>>

\* memory.ts 78-81: addMessage(id, message) up to the await of
\* loadConversation settling.  The call keeps what kv.get answered; history
\* is the bookkeeping of the record it read (the messages appended to that
\* record since it was created), and afterDelete tells that the call
\* before this one was the successful delete of the key
AddMessageLoads(p, id, message) ==
    /\ p \notin DOMAIN inflight
    /\ SumLen(appended, ConversationIds) < MaxAppends
    /\ \E readOk \in BOOLEAN :
           inflight' =
               (p :> [status |-> "loaded", id |-> id, message |-> message,
                      readOk |-> readOk,
                      loaded |-> loadConversation(kv, id, now, readOk),
                      at |-> now,
                      history |-> appended[id],
                      afterDelete |-> /\ lastCall.op = "deleteConversation"
                                      /\ lastCall.id = id
                                      /\ lastCall.result]) @@ inflight
    /\ UNCHANGED <<kv, appended, lastCall, memOthers>>

\* memory.ts 83-115: the rest of the call.  The record built from what was
\* loaded (push, prune, summarize, saveConversation's stamp at 62) is
\* written when kv.set lands (64), whatever the store holds by then
AddMessageSaves(p) ==
    /\ p \in DOMAIN inflight
    /\ inflight[p].status = "loaded"
    /\ \E writeOk \in BOOLEAN :
         LET mine == inflight[p]
             saved == saveAfterLoad(kv, mine.id, mine.loaded, mine.message,
                                    mine.at, now, writeOk, maxKeep)
         IN  /\ kv' = saved.store
             /\ appended' =
                    IF ~writeOk THEN appended
                    ELSE [appended EXCEPT
                              ![mine.id] = IF IsSome(mine.loaded)
                                           THEN Append(mine.history,
                                                       mine.message)
                                           ELSE <<mine.message>>]
             /\ lastCall' = [op |-> "addMessage", id |-> mine.id,
                             message |-> mine.message,
                             readOk |-> mine.readOk,
                             writeOk |-> writeOk, kvBefore |-> kv,
                             loaded |-> mine.loaded,
                             landedAt |-> now,
                             result |-> saved.result,
                             afterDelete |-> mine.afterDelete]
             /\ inflight' = Settled(p)
    /\ UNCHANGED memOthers

\* memoryManager.loadConversation(id)
LoadConversation(id) ==
    /\ \E readOk \in BOOLEAN :
         lastCall' = [op |-> "loadConversation", id |-> id,
                      readOk |-> readOk, kvBefore |-> kv, at |-> now,
                      result |-> loadConversation(kv, id, now, readOk)]
    /\ UNCHANGED <<kv, now, appended, maxKeep, apiKeys, providers, client,
                   retry, search, inflight, stream, clientVars>>

\* memoryManager.deleteConversation(id)
DeleteConversation(id) ==
    /\ \E delOk \in BOOLEAN :
         LET deleted == deleteConversation(kv, id, delOk)
         IN  /\ kv' = deleted.store
             /\ appended' = IF delOk THEN [appended EXCEPT ![id] = <<>>]
                            ELSE appended
             /\ lastCall' = [op |-> "deleteConversation", id |-> id,
                             delOk |-> delOk, kvBefore |-> kv,
                             result |-> deleted.result,
                             repeated |-> /\ lastCall.op = "deleteConversation"
                                          /\ lastCall.id = id
                                          /\ lastCall.result]
    /\ UNCHANGED <<now, maxKeep, apiKeys, providers, client, retry, search,
                   inflight, stream,
                   clientVars>>

InitMem ==
    /\ kv = EmptyStore
    /\ now = 0
    /\ OthersIdle
    /\ ClientIdle

\* the manager looks at a message's role only to tell a system message from
\* another one
SystemOrUser == { message \in MemMessages : message.role # "assistant" }

NextMem ==
    \/ \E id \in ConversationIds, message \in SystemOrUser :
           AddMessageLoads(1, id, message)
    \/ AddMessageSaves(1)
    \/ \E id \in ConversationIds : LoadConversation(id)
    \/ \E id \in ConversationIds : DeleteConversation(id)

\* the manager with one caller that appends, awaiting each addMessage before
\* the next, while loads and deletes (of this caller or of others) fall
\* anywhere, between the load and the save of an append included
SpecMem == InitMem /\ [][NextMem]_vars

\* two clients, each with a conversation key of its own, whose calls run
\* side by side; the run is bounded by the number of appends
MaxOverlapped == 1

KeyOf(p) == IF p = 1 THEN "c1" ELSE "c2"

NextKeys ==
    \/ \E p \in Callers, message \in MemMessages :
           /\ SumLen(appended, ConversationIds) < MaxOverlapped
           /\ AddMessageLoads(p, KeyOf(p), message)
    \/ \E p \in Callers : AddMessageSaves(p)
    \/ \E id \in ConversationIds : LoadConversation(id)
    \/ \E id \in ConversationIds : DeleteConversation(id)

SpecKeys == InitMem /\ [][NextKeys]_vars

\* property vocabulary of the memory manager
StoredOf(id) == loadConversation(kv, id, now, TRUE)
StoredBefore(id) == loadConversation(lastCall.kvBefore, id, now, TRUE)
Appended == lastCall.op = "addMessage" /\ lastCall.readOk /\ lastCall.writeOk
Last(s) == s[Len(s)]

RECURSIVE IsSubSeq(_, _)
IsSubSeq(s, t) ==
    IF s = <<>> THEN TRUE
    ELSE IF t = <<>> THEN FALSE
    ELSE IF Head(s) = Head(t) THEN IsSubSeq(Tail(s), Tail(t))
    ELSE IsSubSeq(s, Tail(t))


Without(s, i) == SubSeq(s, 1, i - 1) \o SubSeq(s, i + 1, Len(s))

\* the append just made had read a full record: pushing made it overflow
Overflowed ==
    /\ Appended
    /\ IsSome(lastCall.loaded)
    /\ Len(Val(lastCall.loaded).messages) >= maxKeep

Pushed == Append(Val(lastCall.loaded).messages, lastCall.message)

(***************************************************************************)
(* C12: after an append whose store operations succeeded, loading the key  *)
(* returns a conversation whose last message is the appended one, and the  *)
(* stored messages appear in the order in which they were appended.        *)
(***************************************************************************)
C12_AppendThenLoad ==
    Appended =>
        LET stored == StoredOf(lastCall.id)
        IN  /\ IsSome(stored)
            /\ lastCall.result = stored
            /\ Last(Val(stored).messages) = lastCall.message
            /\ IsSubSeq(Val(stored).messages, appended[lastCall.id])

\* the second conversation has had more appends than the record may hold
C12_Witness ==
    /\ Appended
    /\ lastCall.id = "c2"
    /\ Len(appended["c2"]) > MAX_MESSAGES_TO_KEEP
    /\ Last(Val(StoredOf("c2")).messages) = lastCall.message
    /\ Val(StoredOf("c2")).messages # appended["c2"]

\* what C13 says of one configured maximum
BoundedBy(max) ==
    \A id \in ConversationIds :
        IsSome(StoredOf(id)) =>
            LET stored == Val(StoredOf(id)).messages
            IN  /\ Len(stored) <= max
                /\ Len(appended[id]) > max =>
                       /\ Len(stored) = max
                       /\ appended[id][1].role = "system" =>
                              stored[1] = appended[id][1]

(***************************************************************************)
(* C13: a stored conversation never holds more messages than the           *)
(* manager's maximum; once more messages than the maximum have been        *)
(* appended to it, it holds exactly the maximum, and a system message that *)
(* led the conversation is still first.  The maximum is the manager's      *)
(* MAX_MESSAGES_TO_KEEP, the only one it can be configured with.           *)
(***************************************************************************)
C13_BoundedMemory == BoundedBy(maxKeep)

\* a conversation that began with a system message has overflowed
C13_Witness ==
    /\ maxKeep = MAX_MESSAGES_TO_KEEP
    /\ \E id \in ConversationIds :
           /\ Len(appended[id]) > maxKeep
           /\ appended[id][1].role = "system"
           /\ IsSome(StoredOf(id))
           /\ Len(Val(StoredOf(id)).messages) = maxKeep
           /\ Val(StoredOf(id)).messages[1] = appended[id][1]

\* the oldest message that is not a system message, the new one aside
OldestNonSystem(msgs) ==
    LET candidates == { i \in 1..(Len(msgs) - 1) : msgs[i].role # "system" }
    IN  IF candidates = {} THEN 0
        ELSE CHOOSE i \in candidates : \A j \in candidates : i <= j

(***************************************************************************)
(* C14 as stated: when an append overflows the record, the message removed *)
(* is the oldest non-system message (a system message goes only when no    *)
(* other message could go instead), the others keep their order and the    *)
(* appended message is retained.                                           *)
(***************************************************************************)
C14_SystemMessagesEvictedLast ==
    Overflowed =>
        LET stored == Val(StoredOf(lastCall.id)).messages
            oldest == OldestNonSystem(Pushed)
        IN  IF oldest # 0 THEN stored = Without(Pushed, oldest)
            ELSE \E i \in 1..(Len(Pushed) - 1) : stored = Without(Pushed, i)

(***************************************************************************)
(* C14 amended: when an append overflows the record, the message removed   *)
(* is the oldest one, or the second oldest when the oldest is a system     *)
(* message: only a system message in first position is protected.  The     *)
(* others keep their order and the appended message is retained.           *)
(***************************************************************************)
C14_LeadingSystemMessageKept ==
    Overflowed =>
        LET stored == Val(StoredOf(lastCall.id)).messages
        IN  /\ stored = Without(Pushed,
                                IF Pushed[1].role = "system" THEN 2 ELSE 1)
            /\ Last(stored) = lastCall.message

\* a second system message was evicted while a later user message stayed
C14_Witness ==
    /\ Overflowed
    /\ Pushed[1].role = "system"
    /\ Pushed[2].role = "system"
    /\ Pushed[3].role = "user"
    /\ Val(StoredOf(lastCall.id)).messages = Without(Pushed, 2)


(***************************************************************************)
(* C15: once a stored conversation has a summary, no append to that key    *)
(* changes it: whenever an append has run on a key whose stored record had *)
(* a summary, the record stored afterwards has that summary.               *)
(***************************************************************************)
C15_SummaryNeverReplaced ==
    (/\ lastCall.op = "addMessage"
     /\ IsSome(StoredBefore(lastCall.id))
     /\ IsSome(Val(StoredBefore(lastCall.id)).summary))
    => /\ IsSome(StoredOf(lastCall.id))
       /\ Val(StoredOf(lastCall.id)).summary =
              Val(StoredBefore(lastCall.id)).summary

\* what does hold: an append that read a record with a summary writes that
\* summary back, although one made from the messages now stored would
\* differ
SummaryReadIsKept ==
    (/\ Appended
     /\ IsSome(lastCall.loaded)
     /\ IsSome(Val(lastCall.loaded).summary))
    => Val(StoredOf(lastCall.id)).summary = Val(lastCall.loaded).summary

(***************************************************************************)
(* C16: a stored conversation whose message count has never reached the    *)
(* summary threshold has no summary; the first append that brings the      *)
(* count to the threshold writes one, made from the messages then stored;  *)
(* so every stored conversation holding at least the threshold number of   *)
(* messages has a summary.                                                 *)
(***************************************************************************)
C16_SummaryAtThreshold ==
    /\ \A id \in ConversationIds :
           IsSome(StoredOf(id)) =>
               LET stored == Val(StoredOf(id))
               IN  /\ Len(appended[id]) < SUMMARY_MESSAGE_THRESHOLD =>
                          stored.summary = None
                   /\ Len(stored.messages) >= SUMMARY_MESSAGE_THRESHOLD =>
                          IsSome(stored.summary)
    /\ (/\ Appended
        /\ Len(appended[lastCall.id]) = SUMMARY_MESSAGE_THRESHOLD)
       => Val(StoredOf(lastCall.id)).summary =
              Some(generateConversationSummary(
                       Val(StoredOf(lastCall.id)).messages))

\* the append that reached the threshold wrote the summary
C16_Witness ==
    /\ Appended
    /\ Len(appended[lastCall.id]) = SUMMARY_MESSAGE_THRESHOLD
    /\ IsSome(StoredBefore(lastCall.id))
    /\ Val(StoredBefore(lastCall.id)).summary = None
    /\ IsSome(Val(StoredOf(lastCall.id)).summary)

(***************************************************************************)
(* C17: deleting a key that holds no conversation answers success and      *)
(* raises nothing; deleting again answers success each time and leaves the *)
(* store as it was.                                                        *)
(***************************************************************************)
C17_DeleteIdempotent ==
    (lastCall.op = "deleteConversation" /\ lastCall.delOk) =>
        /\ lastCall.result = TRUE
        /\ StoredOf(lastCall.id) = None
        /\ \A id \in ConversationIds \ {lastCall.id} :
               kv[getRedisKey(id)] = lastCall.kvBefore[getRedisKey(id)]
        /\ StoredBefore(lastCall.id) = None => kv = lastCall.kvBefore

\* the key was deleted a second time while the other key holds a record
C17_Witness ==
    /\ lastCall.op = "deleteConversation"
    /\ lastCall.delOk
    /\ lastCall.repeated
    /\ StoredBefore(lastCall.id) = None
    /\ lastCall.result = TRUE
    /\ kv = lastCall.kvBefore
    /\ \E id \in ConversationIds : IsSome(StoredOf(id))


(***************************************************************************)
(* config.ts withRetry: one call, from its entry to its return or throw.   *)
(* The operation resolves with a value or rejects with an Error; the       *)
(* backoff sleep is a step of its own.                                     *)
(***************************************************************************)
MaxRetries == 3

\* the maxRetries and baseDelay arguments
RetryCounts == 0..MaxRetries
BaseDelays == {1000, 250}

\* what one invocation of fn can do
FnOutcomes ==
    { [status |-> "resolved", value |-> "response"] } \cup
    { [status |-> "rejected", value |-> e] :
          e \in {"timeout", "rate limited"} }

GenericRetryError == "All retry attempts failed"

RECURSIVE Pow2(_)
Pow2(n) == IF n = 0 THEN 1 ELSE 2 * Pow2(n - 1)

\* config.ts 98
BackoffDelay(baseDelay, attempt) == baseDelay * Pow2(attempt)

\* (mutation) the loop admits one attempt more
LoopContinues_OneMore(attempt, maxRetries) == attempt <= maxRetries

\* config.ts 92: the loop condition
LoopContinues(attempt, maxRetries) == attempt < maxRetries

\* config.ts 108
ThrownError(lastError) ==
    IF IsSome(lastError) THEN Val(lastError) ELSE GenericRetryError

retryOthers == <<kv, now, appended, maxKeep, lastCall, apiKeys, providers,
                 search, inflight, stream,
                 client, clientVars>>

\* config.ts 85-90
WithRetry(maxRetries, baseDelay) ==
    /\ retry.status = "none"
    /\ retry' = [status |-> "loop", maxRetries |-> maxRetries,
                 baseDelay |-> baseDelay, attempt |-> 0, lastError |-> None,
                 delay |-> 0, calls |-> <<>>, sleeps |-> <<>>,
                 result |-> None]
    /\ UNCHANGED retryOthers

\* config.ts 92-99: one pass of the loop body up to the sleep
RetryAttempt ==
    /\ retry.status = "loop"
    /\ LoopContinues(retry.attempt, retry.maxRetries)
    /\ \E settled \in FnOutcomes :
         retry' =
             IF settled.status = "resolved"
             THEN [retry EXCEPT !.status = "returned",
                                !.calls = Append(@, settled),
                                !.result = Some(settled.value)]
             ELSE [retry EXCEPT !.status = "sleeping",
                                !.calls = Append(@, settled),
                                !.lastError = Some(settled.value),
                                !.delay = BackoffDelay(retry.baseDelay,
                                                       retry.attempt)]
    /\ UNCHANGED retryOthers

\* config.ts 102 and 92: the timer fires, attempt++
RetrySleep ==
    /\ retry.status = "sleeping"
    /\ retry' = [retry EXCEPT !.status = "loop",
                              !.sleeps = Append(@, retry.delay),
                              !.attempt = @ + 1]
    /\ UNCHANGED retryOthers

\* config.ts 107-108: the loop is over
RetryExhausted ==
    /\ retry.status = "loop"
    /\ ~LoopContinues(retry.attempt, retry.maxRetries)
    /\ retry' = [retry EXCEPT !.status = "raised",
                              !.result = Some(ThrownError(retry.lastError))]
    /\ UNCHANGED retryOthers

InitRetry ==
    /\ kv = EmptyStore
    /\ now = 0
    /\ OthersIdle
    /\ ClientIdle

NextRetry ==
    \/ \E maxRetries \in RetryCounts, baseDelay \in BaseDelays :
           WithRetry(maxRetries, baseDelay)
    \/ RetryAttempt
    \/ RetrySleep
    \/ RetryExhausted

SpecRetry == InitRetry /\ [][NextRetry]_vars

AllRejected(calls) == \A i \in 1..Len(calls) : calls[i].status = "rejected"

(***************************************************************************)
(* C18: withRetry invokes the operation at most maxRetries times; it       *)
(* returns the value of the first invocation that succeeds and invokes     *)
(* nothing after it; it raises only after maxRetries failed invocations,   *)
(* and then the error it raises is the one of the last invocation.         *)
(***************************************************************************)
C18_RetryBounded ==
    retry.status # "none" =>
        /\ Len(retry.calls) <= retry.maxRetries
        /\ AllRejected(SubSeq(retry.calls, 1, Len(retry.calls) - 1))
        /\ retry.status = "returned" <=>
               (retry.calls # <<>> /\ Last(retry.calls).status = "resolved")
        /\ retry.status = "returned" =>
               retry.result = Some(Last(retry.calls).value)
        /\ retry.status = "raised" =>
               /\ Len(retry.calls) = retry.maxRetries
               /\ AllRejected(retry.calls)
               /\ retry.calls # <<>> =>
                      retry.result = Some(Last(retry.calls).value)

\* three failures with different errors: the last one's error is raised
C18_Witness ==
    /\ retry.status = "raised"
    /\ Len(retry.calls) = MaxRetries
    /\ retry.calls[1].value # Last(retry.calls).value
    /\ retry.result = Some(Last(retry.calls).value)


\* every read and every write of the store failed during the call
StoreWasDown ==
    /\ historyRead = "failed"
    /\ \A w \in 1..Len(memoryWrites) : ~memoryWrites[w].saved

(***************************************************************************)
(* C19: when every read and every write of the store fails during a        *)
(* generateResponse call with memory enabled, the primary provider is      *)
(* still invoked, with the user's prompt as the only message, and when it  *)
(* answers the call returns its answer.                                    *)
(***************************************************************************)
C19_MemoryUnavailableNotFatal ==
    (Done /\ req.mode = "generate" /\ req.useMemory /\ StoreWasDown) =>
        /\ Len(invocations) >= 1
        /\ invocations[1].provider = provider
        /\ invocations[1].options.messages = <<Message("user", req.prompt)>>
        /\ outcome.kind = "returned"
        /\ invocations[1].status = "returned" =>
               /\ Len(invocations) = 1
               /\ outcome.value = invocations[1].value
        /\ Len(memoryWrites) >= 1

\* the store holds a full history that could not be read, both appends
\* failed, and the primary's completion was returned
C19_Witness ==
    /\ Done
    /\ req.mode = "generate"
    /\ req.useMemory
    /\ StoreWasDown
    /\ IsSome(Stored)
    /\ Len(Val(Stored).messages) = MAX_MESSAGES_TO_KEEP
    /\ Len(memoryWrites) = 2
    /\ Len(invocations) = 1
    /\ invocations[1].options.messages = <<Message("user", req.prompt)>>
    /\ outcome = [kind |-> "returned", value |-> <<"Fallback response">>]


(***************************************************************************)
(* LLMFactory and the LLMClient constructor.  Provider and model names are *)
(* strings; a provider instance is known by its identity (id), the class   *)
(* that built it and the model argument it was built with.  The cache      *)
(* never evicts, so the number of cached instances numbers the next one.   *)
(***************************************************************************)
MaxInstances == 2

\* env.ts 75-78, in the order of the pushes
ProviderNames == <<"groq", "glhf", "openrouter", "cohere">>
KnownNames == { ProviderNames[i] : i \in 1..Len(ProviderNames) }

\* the names and models callers ask for
RequestNames == {"glhf", "GLHF", "glhf-mixtral"}
Models == { None, Some("mixtral-8x7b-32768"), Some("8x7b-32768") }

\* String.prototype.toLowerCase on the names above
ToLowerCase(name) == IF name = "GLHF" THEN "glhf" ELSE name

\* JavaScript truthiness of an optional string argument
TruthyString(opt) == IsSome(opt) /\ Val(opt) # ""

\* every implemented name listed, whether or not its key is set
getAvailableProviders_ListsAll(keys) == ProviderNames

\* env.getAvailableProviders: keys holds the names whose API key is truthy
getAvailableProviders(keys) ==
    SelectSeq(ProviderNames, LAMBDA name : name \in keys)

\* factory.ts 70
providerKey(name, model) ==
    name \o (IF TruthyString(model) THEN "-" \o Val(model) ELSE "")

\* factory.ts 81-93: the class the switch selects
ProviderClass(name) ==
    CASE ToLowerCase(name) = "groq" -> "GroqProvider"
      [] ToLowerCase(name) = "glhf" -> "GLHFProvider"
      [] ToLowerCase(name) = "openrouter" -> "OpenRouterProvider"
      [] ToLowerCase(name) = "cohere" -> "CohereProvider"
      [] OTHER -> "unknown"

NewProvider(id, class, model) == [id |-> id, class |-> class, model |-> model]

\* the provider constructors: if (!this.apiKey) console.warn(...), no throw
ConstructorWarns(name, keys) == ToLowerCase(name) \notin keys

UnknownProviderError(name) == "Unknown provider: " \o name
NoProvidersError == "No LLM providers available. Check API keys configuration."

Resolved(cache, instance) ==
    [cache |-> cache, ok |-> TRUE, instance |-> Some(instance), error |-> None]
Thrown(cache, error) ==
    [cache |-> cache, ok |-> FALSE, instance |-> None, error |-> Some(error)]

\* LLMFactory.getProvider
getProvider(cache, name, model) ==
    LET key == providerKey(name, model)
    IN  IF key \in DOMAIN cache THEN Resolved(cache, cache[key])
        ELSE IF ProviderClass(name) = "unknown"
        THEN Thrown(cache, UnknownProviderError(name))
        ELSE LET providerInstance ==
                     NewProvider(Cardinality(DOMAIN cache) + 1,
                                 ProviderClass(name), model)
             IN  Resolved((key :> providerInstance) @@ cache,
                          providerInstance)

\* the last available name instead of the first
getDefaultProvider_PicksLast(cache, keys) ==
    LET availableProviders == getAvailableProviders(keys)
    IN  IF Len(availableProviders) = 0
        THEN [cache |-> cache, ok |-> TRUE, instance |-> None, error |-> None]
        ELSE getProvider(cache, availableProviders[Len(availableProviders)],
                         None)

\* LLMFactory.getDefaultProvider: instance is absent when none is available
getDefaultProvider(cache, keys) ==
    LET availableProviders == getAvailableProviders(keys)
    IN  IF Len(availableProviders) = 0
        THEN [cache |-> cache, ok |-> TRUE, instance |-> None, error |-> None]
        ELSE getProvider(cache, availableProviders[1], None)

\* LLMFactory.createFallbackChain: names.map(name => getProvider(name))
RECURSIVE createFallbackChain(_, _)
createFallbackChain(cache, names) ==
    IF names = <<>> THEN [cache |-> cache, chain |-> <<>>]
    ELSE LET first == getProvider(cache, Head(names), None)
             rest == createFallbackChain(first.cache, Tail(names))
         IN  [cache |-> rest.cache,
              chain |-> <<Val(first.instance)>> \o rest.chain]

\* client.ts 48: filter(p => p !== this.provider)
ExcludeProvider(chain, primary) ==
    SelectSeq(chain, LAMBDA p : p.id # primary.id)

ClientOptions ==
    [provider : {None} \cup { Some(name) : name \in RequestNames },
     model : Models,
     useFallbacks : BOOLEAN]

\* LLMClient.constructor: the cache afterwards, and the client or the error
NewLLMClient(cache, keys, options) ==
    LET primary ==
            IF TruthyString(options.provider)
            THEN getProvider(cache, Val(options.provider), options.model)
            ELSE getDefaultProvider(cache, keys)
    IN  IF ~primary.ok THEN [cache |-> primary.cache, client |-> None,
                             error |-> primary.error]
        ELSE IF ~IsSome(primary.instance)
        THEN [cache |-> primary.cache, client |-> None,
              error |-> Some(NoProvidersError)]
        ELSE LET built ==
                     IF options.useFallbacks
                     THEN createFallbackChain(primary.cache,
                                              getAvailableProviders(keys))
                     ELSE [cache |-> primary.cache, chain |-> <<>>]
             IN  [cache |-> built.cache,
                  client |-> Some([provider |-> Val(primary.instance),
                                   fallbackProviders |->
                                       ExcludeProvider(built.chain,
                                                       Val(primary.instance)),
                                   options |-> options]),
                  error |-> None]

factoryOthers == <<kv, now, appended, maxKeep, apiKeys, retry, search,
                   inflight, stream, clientVars>>

\* LLMFactory.getProvider(name, model)
GetProvider(name, model) ==
    /\ Cardinality(DOMAIN providers) < MaxInstances
    /\ LET got == getProvider(providers, name, model)
       IN  /\ providers' = got.cache
           /\ lastCall' = [op |-> "getProvider", name |-> name,
                           model |-> model, cacheBefore |-> providers,
                           ok |-> got.ok, instance |-> got.instance,
                           error |-> got.error,
                           warned |->
                               /\ providerKey(name, model)
                                      \notin DOMAIN providers
                               /\ ProviderClass(name) # "unknown"
                               /\ ConstructorWarns(name, apiKeys)]
    /\ UNCHANGED <<client, factoryOthers>>

\* new LLMClient(options)
NewClient(options) ==
    /\ Cardinality(DOMAIN providers) < MaxInstances
    /\ LET made == NewLLMClient(providers, apiKeys, options)
       IN  /\ providers' = made.cache
           /\ client' = IF IsSome(made.client) THEN made.client ELSE client
           /\ lastCall' = [op |-> "newClient", options |-> options,
                           cacheBefore |-> providers,
                           ok |-> IsSome(made.client), error |-> made.error]
    /\ UNCHANGED factoryOthers

\* LLMFactory.getDefaultProvider()
GetDefaultProvider ==
    /\ Cardinality(DOMAIN providers) < MaxInstances
    /\ LET got == getDefaultProvider(providers, apiKeys)
       IN  /\ providers' = got.cache
           /\ lastCall' = [op |-> "getDefaultProvider",
                           cacheBefore |-> providers,
                           ok |-> got.ok, instance |-> got.instance,
                           error |-> got.error]
    /\ UNCHANGED <<client, factoryOthers>>

\* LLMFactory.getAvailableProviders()
GetAvailableProviders ==
    /\ lastCall' = [op |-> "getAvailableProviders",
                    names |-> getAvailableProviders(apiKeys)]
    /\ UNCHANGED <<providers, client, factoryOthers>>

\* LLMFactory.createFallbackChain() with the default argument
CreateFallbackChain ==
    /\ Cardinality(DOMAIN providers) < MaxInstances
    /\ LET built == createFallbackChain(providers,
                                        getAvailableProviders(apiKeys))
       IN  /\ providers' = built.cache
           /\ lastCall' = [op |-> "createFallbackChain",
                           cacheBefore |-> providers,
                           chain |-> built.chain]
    /\ UNCHANGED <<client, factoryOthers>>

InitFactory ==
    /\ kv = EmptyStore
    /\ now = 0
    /\ appended = NothingAppended
    /\ maxKeep = MAX_MESSAGES_TO_KEEP
    /\ lastCall = NoCall
    /\ apiKeys \in SUBSET KnownNames
    /\ providers = EmptyCache
    /\ client = NoClient
    /\ retry = NoRetry
    /\ search = NoSearch
    /\ inflight = NoAppends
    /\ stream = NoStream
    /\ ClientIdle

NextFactory ==
    \/ \E name \in RequestNames, model \in Models : GetProvider(name, model)
    \/ \E options \in ClientOptions : NewClient(options)
    \/ GetDefaultProvider
    \/ GetAvailableProviders
    \/ CreateFallbackChain

SpecFactory == InitFactory /\ [][NextFactory]_vars


\* the provider name a class answers to
NameOfClass(class) ==
    CASE class = "GroqProvider" -> "groq"
      [] class = "GLHFProvider" -> "glhf"
      [] class = "OpenRouterProvider" -> "openrouter"
      [] class = "CohereProvider" -> "cohere"

CacheIds(cache) == { cache[k].id : k \in DOMAIN cache }

(***************************************************************************)
(* C11: a client built with fallbacks enabled has no fallback that is its  *)
(* primary provider: no entry of the fallback list is the primary instance *)
(* and none targets the primary's provider name, whether the primary is    *)
(* the registry default or was named, with or without a model.             *)
(***************************************************************************)
C11_FallbacksExcludePrimary ==
    (IsSome(client) /\ Val(client).options.useFallbacks) =>
        \A i \in 1..Len(Val(client).fallbackProviders) :
            LET fallback == Val(client).fallbackProviders[i]
            IN  /\ fallback.id # Val(client).provider.id
                /\ NameOfClass(fallback.class) #
                       NameOfClass(Val(client).provider.class)

(***************************************************************************)
(* C20: getProvider answers a cached key with the cached instance and      *)
(* never replaces a cached instance, so equal (name, model) get the same   *)
(* instance; on a miss it builds one new instance and caches it under the  *)
(* key; for a name that is not a provider's it fails and leaves the cache  *)
(* as it was.                                                              *)
(***************************************************************************)
C20_ResolveCachesOrFails ==
    lastCall.op = "getProvider" =>
        LET key == providerKey(lastCall.name, lastCall.model)
            before == lastCall.cacheBefore
        IN  /\ \A k \in DOMAIN before :
                   k \in DOMAIN providers /\ providers[k] = before[k]
            /\ ToLowerCase(lastCall.name) \in KnownNames =>
                   /\ lastCall.ok
                   /\ lastCall.instance = Some(providers[key])
                   /\ key \in DOMAIN before => providers = before
                   /\ key \notin DOMAIN before =>
                          /\ DOMAIN providers = DOMAIN before \cup {key}
                          /\ providers[key].id \notin CacheIds(before)
            /\ ToLowerCase(lastCall.name) \notin KnownNames =>
                   /\ ~lastCall.ok
                   /\ lastCall.error =
                          Some(UnknownProviderError(lastCall.name))
                   /\ providers = before


\* the positions of ProviderNames whose name has a credential
Credentialed == { i \in 1..Len(ProviderNames) : ProviderNames[i] \in apiKeys }

\* the first credentialed name in the order of ProviderNames
FirstCredentialed ==
    ProviderNames[CHOOSE i \in Credentialed :
                      \A j \in Credentialed : i <= j]

(***************************************************************************)
(* C21: getDefaultProvider answers the instance cached for the first       *)
(* credentialed name in enumeration order, built by that name's class, and *)
(* answers absent without an error and without touching the cache when no  *)
(* name is credentialed; a client constructed without an explicit provider *)
(* fails exactly when no name is credentialed, with the no-providers       *)
(* error, and otherwise has the default as its primary.                    *)
(***************************************************************************)
C21_DefaultIsFirstAvailable ==
    /\ lastCall.op = "getDefaultProvider" =>
           /\ lastCall.ok
           /\ lastCall.error = None
           /\ apiKeys = {} =>
                  /\ lastCall.instance = None
                  /\ providers = lastCall.cacheBefore
           /\ apiKeys # {} =>
                  /\ FirstCredentialed \in DOMAIN providers
                  /\ lastCall.instance = Some(providers[FirstCredentialed])
                  /\ NameOfClass(providers[FirstCredentialed].class) =
                         FirstCredentialed
    /\ (lastCall.op = "newClient"
            /\ ~TruthyString(lastCall.options.provider)) =>
           /\ lastCall.ok <=> apiKeys # {}
           /\ ~lastCall.ok =>
                  /\ lastCall.error = Some(NoProvidersError)
                  /\ providers = lastCall.cacheBefore
           /\ lastCall.ok =>
                  /\ FirstCredentialed \in DOMAIN providers
                  /\ Val(client).provider = providers[FirstCredentialed]

\* two names are credentialed and the default is the earlier one's
\* instance, built by this call
C21_Witness ==
    /\ lastCall.op = "getDefaultProvider"
    /\ apiKeys = {"glhf", "cohere"}
    /\ lastCall.instance = Some(NewProvider(1, "GLHFProvider", None))
    /\ lastCall.cacheBefore = EmptyCache


\* the provider names a sequence of instances targets
NamesTargeted(chain) ==
    { NameOfClass(chain[i].class) : i \in 1..Len(chain) }

(***************************************************************************)
(* C22: getAvailableProviders lists each credentialed name once and no     *)
(* other name; the default fallback chain holds one instance for each      *)
(* credentialed name and none for a name without a credential, and so do   *)
(* a client's fallbacks.                                                   *)
(***************************************************************************)
C22_OnlyCredentialedListed ==
    /\ lastCall.op = "getAvailableProviders" =>
           /\ { lastCall.names[i] : i \in 1..Len(lastCall.names) } = apiKeys
           /\ Len(lastCall.names) = Cardinality(apiKeys)
    /\ lastCall.op = "createFallbackChain" =>
           /\ NamesTargeted(lastCall.chain) = apiKeys
           /\ Len(lastCall.chain) = Cardinality(apiKeys)
    /\ IsSome(client) =>
           NamesTargeted(Val(client).fallbackProviders) \subseteq apiKeys

\* glhf and openrouter have no credential; the chain is groq then cohere
C22_Witness ==
    /\ lastCall.op = "createFallbackChain"
    /\ apiKeys = {"groq", "cohere"}
    /\ Len(lastCall.chain) = 2
    /\ lastCall.chain[1].class = "GroqProvider"
    /\ lastCall.chain[2].class = "CohereProvider"


(***************************************************************************)
(* C23: constructing a provider whose credential is not configured raises  *)
(* an error: getProvider for a provider's name without a credential, when  *)
(* the instance has to be built, fails and caches nothing, and so does the *)
(* construction of a client that names such a provider.                    *)
(***************************************************************************)
C23_MissingCredentialFailsFast ==
    /\ (lastCall.op = "getProvider"
            /\ ToLowerCase(lastCall.name) \in KnownNames \ apiKeys
            /\ providerKey(lastCall.name, lastCall.model)
                   \notin DOMAIN lastCall.cacheBefore) =>
           /\ ~lastCall.ok
           /\ providers = lastCall.cacheBefore
    /\ (lastCall.op = "newClient"
            /\ TruthyString(lastCall.options.provider)
            /\ ToLowerCase(Val(lastCall.options.provider))
                   \in KnownNames \ apiKeys
            /\ providerKey(Val(lastCall.options.provider),
                           lastCall.options.model)
                   \notin DOMAIN lastCall.cacheBefore) =>
           ~lastCall.ok


(***************************************************************************)
(* LLMClient.searchInternet over lib/search/searxng.ts.  A query is a      *)
(* sequence of words, joined by single spaces into the string the code     *)
(* handles; everything returned is a string.  The vocabulary is lower      *)
(* case where the regular expressions ignore case, and has no word that    *)
(* merely contains a question phrase, a filler word or a time word, so     *)
(* that matching whole words is what the regular expressions and           *)
(* String.includes do on it.                                               *)
(***************************************************************************)
SearchQueries ==
    { <<"Test", "query">>,
      <<"what", "is", "the", "latest", "AI", "model">>,
      <<"please", "find", "recent", "papers">>,
      <<"the">> }

RECURSIVE JoinWords(_)
JoinWords(words) ==
    IF words = <<>> THEN ""
    ELSE IF Len(words) = 1 THEN words[1]
    ELSE words[1] \o " " \o JoinWords(Tail(words))

\* searxng.ts 127: the alternatives of the leading-phrase expression
LeadingPhrases ==
    { <<"can", "you">>, <<"could", "you">>, <<"please">>, <<"tell", "me">>,
      <<"find">>, <<"search", "for">>, <<"look", "up">>, <<"what", "is">>,
      <<"who", "is">>, <<"when", "is">>, <<"where", "is">>, <<"why", "is">>,
      <<"how", "is">> }

\* searxng.ts 132
FillerWords ==
    { "the", "a", "an", "that", "this", "these", "those", "it", "they", "we",
      "I", "you", "he", "she", "about" }

IsPrefix(p, words) ==
    Len(p) <= Len(words) /\ SubSeq(words, 1, Len(p)) = p

\* String.includes of any of the given words
IncludesAny(words, wanted) == \E i \in 1..Len(words) : words[i] \in wanted

\* new Date(): the year, and the date as YYYY-MM-DD
CurrentYear == "2026"
DateString == "2026-10-30"

\* searxng.ts 124-149
optimizeSearchQuery(query) ==
    LET stripped ==
            IF \E p \in LeadingPhrases : IsPrefix(p, query)
            THEN LET p == CHOOSE q \in LeadingPhrases : IsPrefix(q, query)
                 IN  SubSeq(query, Len(p) + 1, Len(query))
            ELSE query
        unfilled == SelectSeq(stripped, LAMBDA w : w \notin FillerWords)
        optimized ==
            IF /\ IncludesAny(unfilled,
                              {"latest", "recent", "new", "current"})
               /\ ~IncludesAny(unfilled, {CurrentYear})
            THEN Append(unfilled, CurrentYear)
            ELSE unfilled
    IN  IF optimized = <<>> THEN query ELSE optimized

\* what the SearXNG instance sends back for a result; "" is a missing field
RawResults ==
    { [title |-> "T1", url |-> "https://a.example", content |-> "first",
       publishedDate |-> "2026-10-01"],
      [title |-> "", url |-> "https://b.example", content |-> "second",
       publishedDate |-> ""] }

RawA == CHOOSE r \in RawResults : r.title = "T1"
RawB == CHOOSE r \in RawResults : r.title = ""

\* searxng.ts 35
DefaultMaxResults == 5

\* how the axios.get ends: it rejects, or resolves with or without results
SearXNGResponses ==
    { [kind |-> "error", results |-> <<>>],
      [kind |-> "invalid", results |-> <<>>],
      [kind |-> "results", results |-> <<>>],
      [kind |-> "results", results |-> <<RawA>>],
      [kind |-> "results", results |-> <<RawB, RawA>>],
      [kind |-> "results",
       results |-> <<RawA, RawB, RawA, RawB, RawA, RawB>>] }

\* searxng.ts 77-84
SearchResult(raw) ==
    [title |-> IF raw.title = "" THEN "No title" ELSE raw.title,
     link |-> raw.url,
     snippet |-> raw.content,
     date |-> raw.publishedDate]

MapResults(raws) == [i \in 1..Len(raws) |-> SearchResult(raws[i])]

Slice(s, n) == SubSeq(s, 1, IF Len(s) < n THEN Len(s) ELSE n)

\* searxng.ts 50-52: the q parameter of the request
enhancedQuery(query) ==
    IF IncludesAny(query, {"latest", "recent", "today"})
    THEN JoinWords(query) \o " " \o DateString
    ELSE JoinWords(query)

\* searchSearXNG(query): every failure is caught and answered with []
searchSearXNG(urlConfigured, response) ==
    IF ~urlConfigured THEN <<>>
    ELSE IF response.kind # "results" THEN <<>>
    ELSE Slice(MapResults(response.results), DefaultMaxResults)

\* searxng.ts 104-112
SummaryEntry(i, result) ==
    "[" \o ToString(i) \o "] \"" \o result.title \o "\": " \o result.snippet
        \o (IF result.date # ""
            THEN " (Published: " \o result.date \o ")" ELSE "")
        \o " Source: " \o result.link

RECURSIVE JoinEntries(_, _)
JoinEntries(results, i) ==
    IF i > Len(results) THEN ""
    ELSE SummaryEntry(i, results[i])
             \o (IF i < Len(results) THEN "\n\n" ELSE "")
             \o JoinEntries(results, i + 1)

\* summarizeSearchResults
summarizeSearchResults(results) ==
    IF Len(results) = 0 THEN "No search results found."
    ELSE JoinEntries(results, 1)

SearchApology == "Sorry, I encountered an error while searching the internet."

\* how the provider's searchInternet promise settles
ProviderSearchOutcomes ==
    { [kind |-> "resolved", value |-> "Search results"],
      [kind |-> "resolved", value |-> "No search results found."],
      [kind |-> "rejected", value |-> "search failed"] }

\* client.ts 291-299: the inner try around searchSearXNG and
\* summarizeSearchResults; web is how the searchSearXNG promise settled
searchFallback(web) ==
    IF web.kind = "resolved" THEN summarizeSearchResults(web.value)
    ELSE SearchApology

searchOthers == <<kv, now, appended, maxKeep, lastCall, apiKeys, providers,
                  client, retry, inflight, stream, clientVars>>

\* client.searchInternet(query) up to the await of the provider's search
SearchInternet(query) ==
    /\ search.status \in {"none", "returned"}
    /\ search' = [status |-> "provider", query |-> query,
                  calls |-> <<[provider |-> 0,
                               query |->
                                   JoinWords(optimizeSearchQuery(query))]>>,
                  settled |-> None, web |-> None, result |-> None]
    /\ UNCHANGED searchOthers

\* the provider's promise settles: return its text, or enter the catch
ProviderSearchSettles(settled) ==
    /\ search.status = "provider"
    /\ search' = IF settled.kind = "resolved"
                 THEN [search EXCEPT !.status = "returned",
                                     !.settled = Some(settled),
                                     !.result = Some(settled.value)]
                 ELSE [search EXCEPT !.status = "searxng",
                                     !.settled = Some(settled)]
    /\ UNCHANGED searchOthers

\* searchSearXNG(query) runs and its promise resolves
SearXNGSettles(urlConfigured, response) ==
    /\ search.status = "searxng"
    /\ LET results == searchSearXNG(urlConfigured, response)
           web == [kind |-> "resolved", value |-> results]
       IN  search' = [search EXCEPT
                         !.status = "returned",
                         !.web = Some([query |-> JoinWords(search.query),
                                       urlConfigured |-> urlConfigured,
                                       requested |->
                                           IF urlConfigured
                                           THEN Some(enhancedQuery(
                                                         search.query))
                                           ELSE None,
                                       response |-> response,
                                       results |-> results]),
                         !.result = Some(searchFallback(web))]
    /\ UNCHANGED searchOthers

InitSearch ==
    /\ kv = EmptyStore
    /\ now = 0
    /\ OthersIdle
    /\ fallbackProviders \in { [i \in 1..n |-> i] : n \in 0..MaxFallbacks }
    /\ pc = "idle"
    /\ req = NoRequest
    /\ messages = <<>>
    /\ memoryContext = None
    /\ enhancedSystemPrompt = <<>>
    /\ fbIndex = 0
    /\ fullResponse = <<>>
    /\ fallbackResponse = <<>>
    /\ invocations = <<>>
    /\ chunksDelivered = <<>>
    /\ memoryWrites = <<>>
    /\ outcome = NoOutcome
    /\ historyRead = "none"
    /\ pendingSet = NoPendingSet

NextSearch ==
    \/ \E query \in SearchQueries : SearchInternet(query)
    \/ \E settled \in ProviderSearchOutcomes : ProviderSearchSettles(settled)
    \/ \E urlConfigured \in BOOLEAN, response \in SearXNGResponses :
           SearXNGSettles(urlConfigured, response)

SpecSearch == InitSearch /\ [][NextSearch]_vars


\* the web search behind the fallback failed: the request was rejected
WebSearchFailed ==
    /\ IsSome(search.web)
    /\ Val(search.web).urlConfigured
    /\ Val(search.web).response.kind = "error"

(***************************************************************************)
(* C24: a finished searchInternet call has asked the primary provider      *)
(* once and no fallback provider; it returns the provider's text when the  *)
(* provider answered; when the provider failed it returns the formatted    *)
(* results of the web search, and the apology when the web search failed   *)
(* as well.                                                                *)
(***************************************************************************)
C24_SearchFallsBackThenApologises ==
    search.status = "returned" =>
        /\ IsSome(search.result)
        /\ Len(search.calls) = 1
        /\ search.calls[1].provider = 0
        /\ Val(search.settled).kind = "resolved" =>
               /\ search.result = Some(Val(search.settled).value)
               /\ search.web = None
        /\ (Val(search.settled).kind = "rejected" /\ ~WebSearchFailed) =>
               search.result =
                   Some(summarizeSearchResults(Val(search.web).results))
        /\ (Val(search.settled).kind = "rejected" /\ WebSearchFailed) =>
               search.result = Some(SearchApology)


(***************************************************************************)
(* Two addMessage calls side by side.  addMessage awaits its load and later *)
(* awaits its save, and nothing orders one call's steps against another's. *)
(* Each caller makes one call; a call's record keeps what it loaded, and   *)
(* when it saves, how many saves came before and whether another call on   *)
(* the same key had loaded and not yet saved.                              *)
(***************************************************************************)
raceOthers == <<now, appended, maxKeep, lastCall, apiKeys, providers, client,
                retry, search, stream, clientVars>>

SavesBefore == Cardinality({ p \in DOMAIN inflight : inflight[p].status = "done" })

\* addMessage(id, message) up to the await of loadConversation settling
RaceLoad(p, id, message) ==
    /\ p \notin DOMAIN inflight
    /\ \E readOk \in BOOLEAN :
           inflight' =
               (p :> [status |-> "loaded", id |-> id, message |-> message,
                      readOk |-> readOk,
                      loaded |-> loadConversation(kv, id, now, readOk),
                      at |-> now,
                      writeOk |-> FALSE, nth |-> 0, overlapped |-> FALSE,
                      result |-> None]) @@ inflight
    /\ UNCHANGED <<kv, raceOthers>>

\* the rest of the call: the record built when the load settled (push,
\* prune, summarize, saveConversation's stamp) is written when kv.set lands
RaceSave(p) ==
    /\ p \in DOMAIN inflight
    /\ inflight[p].status = "loaded"
    /\ \E writeOk \in BOOLEAN :
           LET mine == inflight[p]
               saved == saveAfterLoad(kv, mine.id, mine.loaded, mine.message,
                                      mine.at, now, writeOk, maxKeep)
           IN  /\ kv' = saved.store
               /\ inflight' =
                      [inflight EXCEPT
                          ![p] = [mine EXCEPT
                                     !.status = "done",
                                     !.writeOk = writeOk,
                                     !.nth = SavesBefore + 1,
                                     !.overlapped =
                                         \E q \in DOMAIN inflight \ {p} :
                                             /\ inflight[q].status = "loaded"
                                             /\ inflight[q].id = mine.id,
                                     !.result = saved.result]]
    /\ UNCHANGED raceOthers

InitRace ==
    /\ kv \in { EmptyStore,
                addMessage(EmptyStore, "c1",
                           Message("system", <<"Be brief", ".">>), 0, TRUE,
                           TRUE).store }
    /\ now = 0
    /\ OthersIdle
    /\ ClientIdle

NextRace ==
    \/ \E p \in Callers, id \in ConversationIds, message \in MemMessages :
           RaceLoad(p, id, message)
    \/ \E p \in Callers : RaceSave(p)

SpecRace == InitRace /\ [][NextRace]_vars


\* both calls are over, on one key, with every read and write succeeding,
\* and first had saved while last had loaded and not yet saved
LoadedBeforeEitherSaved(first, last) ==
    /\ {first, last} \subseteq DOMAIN inflight
    /\ first # last
    /\ inflight[first].status = "done"
    /\ inflight[last].status = "done"
    /\ inflight[first].id = inflight[last].id
    /\ inflight[first].readOk /\ inflight[first].writeOk
    /\ inflight[last].readOk /\ inflight[last].writeOk
    /\ inflight[first].nth = 1
    /\ inflight[first].overlapped
    /\ inflight[last].nth = 2

\* the messages a call found stored
MessagesLoaded(p) ==
    IF IsSome(inflight[p].loaded) THEN Val(inflight[p].loaded).messages
    ELSE <<>>

(***************************************************************************)
(* C26: appends to one key are not atomic.  Whenever two addMessage calls  *)
(* on the same key both load before either saves, the stored conversation  *)
(* afterwards is what the later save wrote: the messages both calls had    *)
(* loaded followed by the later call's message alone.  The earlier call's  *)
(* message is lost although that call reported success.                    *)
(***************************************************************************)
C26_ConcurrentAppendsLoseAMessage ==
    \A first \in Callers, last \in Callers :
        LoadedBeforeEitherSaved(first, last) =>
            /\ MessagesLoaded(first) = MessagesLoaded(last)
            /\ IsSome(inflight[first].result)
            /\ IsSome(inflight[last].result)
            /\ StoredOf(inflight[last].id) = inflight[last].result
            /\ Val(StoredOf(inflight[last].id)).messages =
                   Append(MessagesLoaded(last), inflight[last].message)
            /\ Len(Val(StoredOf(inflight[last].id)).messages) =
                   Len(MessagesLoaded(last)) + 1

\* both calls appended to c1, which held one message; the user message of
\* the first call is gone and only the assistant message was added
C26_Witness ==
    /\ LoadedBeforeEitherSaved(1, 2)
    /\ inflight[1].id = "c1"
    /\ inflight[1].message.role = "user"
    /\ inflight[2].message.role = "assistant"
    /\ Len(MessagesLoaded(1)) = 1
    /\ Val(StoredOf("c1")).messages =
           Append(MessagesLoaded(1), inflight[2].message)
    /\ Val(inflight[1].result).messages =
           Append(MessagesLoaded(1), inflight[1].message)


(***************************************************************************)
(* C27: an append whose read of the store failed and whose write succeeded *)
(* leaves the messages that were stored under the key in the stored        *)
(* conversation: when the record had room for one more message, every      *)
(* message stored before is still stored afterwards, in order.             *)
(***************************************************************************)
C27_FailedReadKeepsHistory ==
    (/\ lastCall.op = "addMessage"
     /\ ~lastCall.readOk
     /\ lastCall.writeOk
     /\ IsSome(StoredBefore(lastCall.id))
     /\ Len(Val(StoredBefore(lastCall.id)).messages) < maxKeep) =>
        /\ IsSome(StoredOf(lastCall.id))
        /\ IsSubSeq(Val(StoredBefore(lastCall.id)).messages,
                    Val(StoredOf(lastCall.id)).messages)

(***************************************************************************)
(* C28: an append whose write failed answers absent instead of the updated *)
(* conversation, and leaves the store as it was: the record under the key, *)
(* if any, is the one stored before, and no other key changed.  This holds *)
(* whether or not the append's read succeeded.                             *)
(***************************************************************************)
C28_FailedWriteReported ==
    (lastCall.op = "addMessage" /\ ~lastCall.writeOk) =>
        /\ lastCall.result = None
        /\ StoredOf(lastCall.id) = StoredBefore(lastCall.id)
        /\ kv = lastCall.kvBefore

\* two messages are stored and a third append failed to write
C28_Witness ==
    /\ lastCall.op = "addMessage"
    /\ ~lastCall.writeOk
    /\ lastCall.readOk
    /\ lastCall.result = None
    /\ IsSome(StoredOf(lastCall.id))
    /\ Len(Val(StoredOf(lastCall.id)).messages) = 2
    /\ lastCall.message \notin
           { Val(StoredOf(lastCall.id)).messages[i] : i \in 1..2 }


(***************************************************************************)
(* The memory manager while time passes.  The clock counts seconds; it is  *)
(* the store's clock and the one Date.now() reads.  It advances by a full  *)
(* expiry or by one second less, which puts it on both sides of a record's *)
(* expiry.                                                                 *)
(***************************************************************************)
MaxDays == 2

TickSeconds == { MEMORY_EXPIRY_SECONDS - 1, MEMORY_EXPIRY_SECONDS }

Tick(seconds) ==
    /\ now + seconds <= MaxDays * MEMORY_EXPIRY_SECONDS
    /\ now' = now + seconds
    /\ UNCHANGED <<kv, others, clientVars>>

InitTtl ==
    /\ kv = EmptyStore
    /\ now = 0
    /\ OthersIdle
    /\ ClientIdle

NextTtl ==
    \/ \E message \in MemMessages :
           /\ message.role = "user"
           /\ AddMessageLoads(1, conversationId, message)
    \/ AddMessageSaves(1)
    \/ LoadConversation(conversationId)
    \/ \E seconds \in TickSeconds : Tick(seconds)

SpecTtl == InitTtl /\ [][NextTtl]_vars

(***************************************************************************)
(* The store written without addMessage.  saveConversation is a public     *)
(* method of the manager (memory.ts 57-69) and setWithExpiry and deleteKey *)
(* are exported by redis.ts (31-39, 61-69); addMessage is their only       *)
(* caller in the repository, but a caller of the module can call them, and *)
(* then writes any record under any key with any time to live.  A call     *)
(* stamps and serialises its value when it is made; its kv.set lands       *)
(* later.                                                                  *)
(***************************************************************************)
MaxSeconds == 17

DirectTickSeconds == {7, 10}

DirectExpiries == {10}

DirectStates ==
    { [messages |-> <<>>, summary |-> None, createdAt |-> 0, updatedAt |-> 0],
      [messages |-> <<Message("user", <<"hi">>)>>, summary |-> None,
       createdAt |-> 0, updatedAt |-> 0] }

\* memory.ts 57-64: saveConversation(id, state) is called: the state is
\* stamped and handed to setWithExpiry, which awaits kv.set
SaveConversationCalled(p, id, state) ==
    /\ p \notin DOMAIN inflight
    /\ inflight' = (p :> [status |-> "saving", op |-> "saveConversation",
                          key |-> getRedisKey(id),
                          value |-> [state EXCEPT !.updatedAt = now],
                          expiryInSeconds |-> MEMORY_EXPIRY_SECONDS,
                          at |-> now]) @@ inflight
    /\ UNCHANGED <<kv, appended, lastCall, memOthers>>

\* redis.ts 31-33: setWithExpiry(key, value, expiryInSeconds) is called and
\* awaits kv.set
SetWithExpiryCalled(p, key, value, expiryInSeconds) ==
    /\ p \notin DOMAIN inflight
    /\ inflight' = (p :> [status |-> "saving", op |-> "setWithExpiry",
                          key |-> key, value |-> value,
                          expiryInSeconds |-> expiryInSeconds,
                          at |-> now]) @@ inflight
    /\ UNCHANGED <<kv, appended, lastCall, memOthers>>

\* redis.ts 33-38: the kv.set of a direct call settles and the call returns
\* true, or false when it raised
SetSettles(p) ==
    /\ p \in DOMAIN inflight
    /\ inflight[p].status = "saving"
    /\ \E writeOk \in BOOLEAN :
         LET mine == inflight[p]
             saved == setWithExpiry(kv, mine.key, mine.value,
                                    mine.expiryInSeconds, now, writeOk)
         IN  /\ kv' = saved.store
             /\ lastCall' = [op |-> mine.op, key |-> mine.key,
                             value |-> mine.value,
                             expiryInSeconds |-> mine.expiryInSeconds,
                             writeOk |-> writeOk, kvBefore |-> kv,
                             at |-> mine.at, landedAt |-> now,
                             result |-> saved.result]
    /\ inflight' = Settled(p)
    /\ UNCHANGED <<appended, memOthers>>

\* redis.ts 61-69: deleteKey(key)
DeleteKey(key) ==
    /\ \E delOk \in BOOLEAN :
         LET deleted == deleteKey(kv, key, delOk)
         IN  /\ kv' = deleted.store
             /\ lastCall' = [op |-> "deleteKey", key |-> key,
                             delOk |-> delOk, kvBefore |-> kv,
                             result |-> deleted.result]
    /\ UNCHANGED <<appended, inflight, memOthers>>

NextStore ==
    \/ \E state \in DirectStates :
           SaveConversationCalled(1, conversationId, state)
    \/ \E value \in DirectStates, expiryInSeconds \in DirectExpiries :
           SetWithExpiryCalled(2, getRedisKey(conversationId), value,
                               expiryInSeconds)
    \/ \E p \in Callers : SetSettles(p)
    \/ DeleteKey(getRedisKey(conversationId))
    \/ LoadConversation(conversationId)
    \/ \E seconds \in DirectTickSeconds :
           now + seconds <= MaxSeconds /\ Tick(seconds)

SpecStore == InitMem /\ [][NextStore]_vars

\* a direct save stores the state it was given, stamped at the call, for
\* the manager's time to live counted from the landing; a direct
\* setWithExpiry stores its value as it is, for the time to live it names
DirectWriteStored ==
    (lastCall.op \in {"saveConversation", "setWithExpiry"}
         /\ lastCall.result) =>
        /\ kv = [lastCall.kvBefore EXCEPT ![lastCall.key] =
                     Some([value |-> JSONStringify(lastCall.value),
                           expireAt |-> lastCall.landedAt
                                            + lastCall.expiryInSeconds])]
        /\ lastCall.op = "saveConversation" =>
               /\ lastCall.value.updatedAt = lastCall.at
               /\ lastCall.expiryInSeconds = MEMORY_EXPIRY_SECONDS

\* a record without messages, created before its first save, is stored
EmptyRecordSaved ==
    /\ lastCall.op = "saveConversation"
    /\ now = 7
    /\ kv["conv:c1"] =
           Some([value |-> [messages |-> <<>>, createdAt |-> 0,
                            updatedAt |-> 7],
                 expireAt |-> 7 + MEMORY_EXPIRY_SECONDS])

\* a record written for ten seconds is gone after ten seconds
ShortLivedRecord ==
    /\ IsSome(kv["conv:c1"])
    /\ Val(kv["conv:c1"]).expireAt = 17
    /\ now = 17
    /\ lastCall.op = "loadConversation"
    /\ lastCall.id = "c1"
    /\ lastCall.readOk
    /\ lastCall.result = None


\* the record in a slot of the store, expired or not
RecordIn(key) == JSONParse(Val(kv[key]).value)

(***************************************************************************)
(* C29: sliding expiration.  The write of every successful append sets the *)
(* key's time to live to the full expiry, counted from the moment kv.set   *)
(* lands (which is not before the record's updatedAt stamp): from then the *)
(* conversation is found while less than the full expiry has passed and is *)
(* absent from then on.  A load finds the record exactly while the slot    *)
(* has not expired, and leaves the store, expiry included, as it was.      *)
(***************************************************************************)
C29_SlidingExpiration ==
    /\ (lastCall.op = "addMessage" /\ lastCall.writeOk) =>
           LET key == getRedisKey(lastCall.id)
           IN  /\ IsSome(kv[key])
               /\ Val(kv[key]).expireAt =
                      lastCall.landedAt + MEMORY_EXPIRY_SECONDS
               /\ RecordIn(key) = Val(lastCall.result)
               /\ RecordIn(key).updatedAt <= lastCall.landedAt
               /\ IsSome(StoredOf(lastCall.id)) <=>
                      now - lastCall.landedAt < MEMORY_EXPIRY_SECONDS
    /\ lastCall.op = "loadConversation" =>
           LET key == getRedisKey(lastCall.id)
           IN  /\ kv = lastCall.kvBefore
               /\ lastCall.readOk =>
                      ( IsSome(lastCall.result) <=>
                            /\ IsSome(kv[key])
                            /\ lastCall.at < Val(kv[key]).expireAt )
               /\ IsSome(lastCall.result) =>
                      Val(lastCall.result) = RecordIn(key)

\* the record was stamped at 0 and its write landed one second short of a
\* day later; one second short of a further day, when a full expiry since
\* the stamp has long passed, a load still finds it
C29_Witness ==
    /\ lastCall.op = "loadConversation"
    /\ IsSome(lastCall.result)
    /\ Val(lastCall.result).updatedAt = 0
    /\ Val(kv[getRedisKey(lastCall.id)]).expireAt =
           2 * MEMORY_EXPIRY_SECONDS - 1
    /\ lastCall.at = 2 * MEMORY_EXPIRY_SECONDS - 2
    /\ now = lastCall.at


(***************************************************************************)
(* C30: the sleep after the failed attempt numbered a, counting from 0, is *)
(* baseDelay * 2^a, and every sleep is followed by another invocation of   *)
(* the operation: a finished withRetry call has slept once fewer than it   *)
(* invoked the operation, so nothing is slept between the last failure and *)
(* the error being raised.                                                 *)
(***************************************************************************)
C30_BackoffOnlyBetweenAttempts ==
    retry.status # "none" =>
        /\ \A i \in 1..Len(retry.sleeps) :
               retry.sleeps[i] = retry.baseDelay * Pow2(i - 1)
        /\ (retry.status \in {"returned", "raised"} /\ retry.calls # <<>>) =>
               Len(retry.sleeps) = Len(retry.calls) - 1

(***************************************************************************)
(* C35.  With useMemory false, generateResponse and                        *)
(* generateStreamingResponse perform no read and no write on the store:    *)
(* no step of the call changes the store, nothing is loaded, addMessage is *)
(* never called, and every provider invoked receives a message list that   *)
(* holds only the user's prompt.                                           *)
(***************************************************************************)
MemoryOff == req.mode # "none" /\ ~req.useMemory

C35_NoMemoryNoStoreAccess ==
    /\ [](MemoryOff =>
            /\ historyRead \in {"none"}
            /\ memoryWrites = <<>>
            /\ pc \notin {"idle", "load"} =>
                   /\ messages = <<Message("user", req.prompt)>>
                   /\ memoryContext = None
            /\ \A i \in 1..Len(invocations) :
                   invocations[i].options.messages =
                       <<Message("user", req.prompt)>>)
    /\ [][MemoryOff => kv' = kv]_vars

\* a streaming call without memory has ended on a store that holds a full
\* history, and the provider was sent the prompt alone
C35_Witness ==
    /\ Done
    /\ MemoryOff
    /\ req.mode = "stream"
    /\ outcome.kind = "returned"
    /\ IsSome(Stored)
    /\ Len(Val(Stored).messages) = MaxHistory
    /\ Len(invocations) >= 1
    /\ Succeeded(LastInvocation)
    /\ LastInvocation.options.messages = <<Message("user", req.prompt)>>

(***************************************************************************)
(* C36.  When every provider raises, the client persists no assistant      *)
(* message: once the apology is returned, addMessage was called exactly    *)
(* once, with the user's prompt, the apology was never written as an       *)
(* assistant turn, and (store reads and writes succeeding) the stored      *)
(* conversation is the loaded history with the user's prompt appended,     *)
(* pruned to the manager's limit.                                          *)
(***************************************************************************)
\* the history the call loaded at its start (client.ts 86-90 / 189-193)
HistoryAtCall == SubSeq(messages, 1, Len(messages) - 1)

\* the load of the call succeeded, and each addMessage wrote a record built
\* from the stored one
StoreReliable ==
    /\ historyRead = "ok"
    /\ \A w \in 1..Len(memoryWrites) :
           memoryWrites[w].saved /\ memoryWrites[w].fromStored

EveryProviderRaised ==
    /\ Len(invocations) >= 1
    /\ \A i \in 1..Len(invocations) : invocations[i].status = "raised"

C36_ApologyNotPersisted ==
    ( /\ Done
      /\ req.useMemory
      /\ EveryProviderRaised
      /\ outcome.kind = "returned" ) =>
        /\ outcome.value \in {ApologyText, StreamingApologyText}
        /\ AssistantWrites = {}
        /\ Len(memoryWrites) = 1
        /\ memoryWrites[1].message = Message("user", req.prompt)
        /\ StoreReliable =>
               /\ IsSome(Stored)
               /\ Val(Stored).messages =
                      PruneMessages(Append(HistoryAtCall,
                                           Message("user", req.prompt)))
               /\ Len(HistoryAtCall) < MAX_MESSAGES_TO_KEEP =>
                      Val(Stored).messages =
                          Append(HistoryAtCall, Message("user", req.prompt))
               /\ \A k \in 1..Len(Val(Stored).messages) :
                      Val(Stored).messages[k] #
                          Message("assistant", outcome.value)

\* the primary and two fallbacks raised on a store with some history, and
\* the apology came back
C36_Witness ==
    /\ Done
    /\ req.useMemory
    /\ EveryProviderRaised
    /\ Len(invocations) = 1 + MaxFallbacks
    /\ outcome.kind = "returned"
    /\ StoreReliable
    /\ Len(HistoryAtCall) >= 1
    /\ Len(HistoryAtCall) < MAX_MESSAGES_TO_KEEP
    /\ Val(Stored).messages = Append(HistoryAtCall, Message("user", req.prompt))

(***************************************************************************)
(* C37.  After a successful generateResponse with memory enabled, with no  *)
(* other writer and the size bound not reached (store reads and writes     *)
(* succeeding), the stored conversation is the previously stored history   *)
(* followed by exactly two new messages: the user's prompt, then an        *)
(* assistant message whose content is the returned response, whether the   *)
(* primary or a fallback produced it.                                      *)
(***************************************************************************)
C37_SuccessfulGenerateAppendsTwo ==
    ( /\ Done
      /\ req.mode = "generate"
      /\ req.useMemory
      /\ outcome.kind = "returned"
      /\ Len(invocations) >= 1
      /\ Succeeded(LastInvocation)
      /\ StoreReliable
      /\ Len(HistoryAtCall) + 2 <= MAX_MESSAGES_TO_KEEP ) =>
        /\ outcome.value = LastInvocation.value
        /\ IsSome(Stored)
        /\ Val(Stored).messages =
               HistoryAtCall \o
                   << Message("user", req.prompt),
                      Message("assistant", outcome.value) >>
        /\ Len(memoryWrites) = 2

\* a fallback produced the response after the primary raised, on a store
\* that held one message
C37_Witness ==
    /\ Done
    /\ req.mode = "generate"
    /\ req.useMemory
    /\ outcome.kind = "returned"
    /\ Len(invocations) = 2
    /\ invocations[1].status = "raised"
    /\ Succeeded(LastInvocation)
    /\ outcome.value = <<"Fallback response">>
    /\ StoreReliable
    /\ Len(HistoryAtCall) = 1
    /\ Len(HistoryAtCall) + 2 <= MAX_MESSAGES_TO_KEEP
    /\ Len(Val(Stored).messages) = 3

(***************************************************************************)
(* C38.  For providers whose streams end with exactly one done=true chunk  *)
(* (a stream that raises has not yielded it) and a callback that does not  *)
(* raise, a generateStreamingResponse call delivers done=true to onChunk   *)
(* exactly once, and that delivery is the last callback invocation of the  *)
(* call: whether the primary succeeded, a fallback succeeded after a       *)
(* failed attempt, or every provider failed.                               *)
(***************************************************************************)
\* the stream of one attempt marks its end, and nothing else, with done
WellFormedStream(inv) ==
    LET n == Len(inv.chunks)
    IN  /\ \A k \in 1..n : inv.chunks[k].done => k = n
        /\ inv.status = "completed" => n >= 1 /\ inv.chunks[n].done
        /\ inv.status = "raised" => \A k \in 1..n : ~inv.chunks[k].done

DoneDeliveries == { k \in 1..Len(chunksDelivered) : chunksDelivered[k].done }

C38_DoneDeliveredOnceAndLast ==
    ( /\ Done
      /\ req.mode = "stream"
      /\ ~req.onChunkRaises
      /\ \A i \in 1..Len(invocations) : WellFormedStream(invocations[i]) ) =>
        /\ DoneDeliveries = {Len(chunksDelivered)}
        /\ Len(chunksDelivered) >= 1

\* a fallback completed its stream after the primary had delivered a chunk
\* and raised
C38_Witness ==
    /\ Done
    /\ req.mode = "stream"
    /\ ~req.onChunkRaises
    /\ \A i \in 1..Len(invocations) : WellFormedStream(invocations[i])
    /\ Len(invocations) = 2
    /\ invocations[1].status = "raised"
    /\ Len(invocations[1].chunks) = 1
    /\ invocations[2].status = "completed"
    /\ DoneDeliveries = {Len(chunksDelivered)}
    /\ Len(chunksDelivered) >= 2

\* every provider's stream raised and the apology was delivered with done
AllFailedDoneOnce ==
    /\ Done
    /\ req.mode = "stream"
    /\ ~req.onChunkRaises
    /\ \A i \in 1..Len(invocations) : WellFormedStream(invocations[i])
    /\ EveryProviderRaised
    /\ Len(chunksDelivered) >= 2
    /\ DoneDeliveries = {Len(chunksDelivered)}

(***************************************************************************)
(* C39.  Memory operations on one conversation key leave every other       *)
(* key's record unchanged, however the calls on the keys interleave: a     *)
(* step that changes a slot of the store (record or expiry) is the write   *)
(* of an append or the removal of a delete on that slot's own key, and it  *)
(* changes no other slot; a load, and the read of an append, change none.  *)
(***************************************************************************)
C39_OtherKeysUntouched ==
    [][\A key \in DOMAIN kv :
           kv'[key] # kv[key] =>
               /\ lastCall'.op \in {"addMessage", "deleteConversation"}
               /\ lastCall'.kvBefore = kv
               /\ key = getRedisKey(lastCall'.id)
               /\ \A p \in DOMAIN inflight' : inflight'[p] = inflight[p]]_vars

\* the first client's append was written while the second client's append,
\* on the other key, was between its read and its write
C39_Witness ==
    /\ lastCall.op = "addMessage"
    /\ lastCall.id = "c1"
    /\ lastCall.writeOk
    /\ IsSome(StoredOf("c1"))
    /\ 2 \in DOMAIN inflight
    /\ inflight[2].id = "c2"
    /\ inflight[2].loaded = None
    /\ StoredOf("c2") = None

FreshWith(conversation, message) ==
    /\ IsSome(conversation)
    /\ Val(conversation).messages = <<message>>
    /\ Val(conversation).summary = None

WrittenBackAfterDelete ==
    /\ lastCall.op = "addMessage"
    /\ lastCall.writeOk
    /\ IsSome(lastCall.loaded)
    /\ StoredBefore(lastCall.id) = None
    /\ Len(Val(StoredOf(lastCall.id)).messages) >= 2

\* a record with several messages and a summary was deleted
DeletedFullRecord ==
    /\ lastCall.op = "deleteConversation"
    /\ lastCall.result
    /\ IsSome(StoredBefore(lastCall.id))
    /\ Len(Val(StoredBefore(lastCall.id)).messages) = MAX_MESSAGES_TO_KEEP
    /\ IsSome(Val(StoredBefore(lastCall.id)).summary)
    /\ StoredOf(lastCall.id) = None

(***************************************************************************)
(* A provider's generateStreamingResponse on its own (OpenRouter           *)
(* part_002 117-162, GLHF part_002 295-340, Cohere cohere.ts 131-181).     *)
(* The request is made under withRetry with its default of three attempts; *)
(* the transport stream then delivers network reads until it ends or the   *)
(* connection fails.  A read of the OpenAI-style vendors is a sequence of  *)
(* lines:                                                                  *)
(*   content    data: {"choices":[{"delta":{"content":"Hello"}}]}          *)
(*   other      data: {"choices":[{"delta":{"role":"assistant"}}]}         *)
(*   malformed  data: {"choices":[{"delta"       (JSON.parse raises)       *)
(*   sentinel   data: [DONE]                                               *)
(*   comment    : keep-alive          (does not start with "data: ")       *)
(* A read of Cohere is one JSON text:                                      *)
(*   content    {"event_type":"text-generation","text":"Hello"}            *)
(*   other      {"event_type":"stream-start"}                              *)
(*   malformed  {"event_type":"text-gener         (JSON.parse raises)      *)
(*   partial    "text":"Hello"}   (not JSON, but the pattern finds a text) *)
(*   sentinel   {"event_type":"stream-end"}                                *)
(***************************************************************************)
MaxReads == 2
MaxLines == 2

\* config.ts 87: withRetry's default maxRetries
DefaultMaxRetries == 3

StreamingProviders == {"openrouter", "glhf", "cohere"}

Line(kind, content) == [kind |-> kind, content |-> content]
Sentinel == Line("sentinel", <<>>)

ContentTexts == { <<"Hello">> }

SseLines ==
    { Line("content", c) : c \in ContentTexts } \cup
    { Line("other", <<>>), Line("malformed", <<>>), Sentinel }

CohereEvents ==
    { Line("content", c) : c \in ContentTexts } \cup
    { Line("partial", c) : c \in ContentTexts } \cup
    { Line("other", <<>>), Line("malformed", <<>>), Sentinel }

\* what one network read can hold: up to MaxLines lines, a comment line, if
\* any, coming first
ReadsOf(p) ==
    IF p = "cohere"
    THEN { <<>> } \cup { <<e>> : e \in CohereEvents }
    ELSE LET dataReads(max) == UNION { [1..n -> SseLines] : n \in 0..max }
         IN  dataReads(MaxLines) \cup
             { <<Line("comment", <<>>)>> \o read :
                   read \in dataReads(MaxLines - 1) }

ContentChunk(content) == [content |-> content, done |-> FALSE]

\* part_002 140, 157 / cohere.ts 158, 176: yield { content: '', done: true }
DoneChunk == [content |-> <<>>, done |-> TRUE]

\* part_002 160 / cohere.ts 179: the chunk yielded by the outer catch
StreamErrorChunk == [content |-> StreamingApologyText, done |-> TRUE]

\* the loop over the data lines as the specification describes it: a line
\* that does not parse is skipped and the loop goes on with the next line
RECURSIVE ParseLines_SkipsLineOnly(_)
ParseLines_SkipsLineOnly(lines) ==
    IF lines = <<>> THEN [chunks |-> <<>>, returned |-> FALSE]
    ELSE LET line == Head(lines)
             rest == ParseLines_SkipsLineOnly(Tail(lines))
         IN  CASE line.kind = "sentinel" ->
                      [chunks |-> <<DoneChunk>>, returned |-> TRUE]
               [] line.kind = "content" ->
                      [chunks |-> <<ContentChunk(line.content)>> \o rest.chunks,
                       returned |-> rest.returned]
               [] OTHER -> rest

\* part_002 137-150: the loop over the data lines of one read, inside the
\* try of the read.  [chunks, returned]: the chunks yielded, and whether the
\* generator returned.  JSON.parse raising leaves the loop for the catch at
\* 152-154, so the lines after it are not looked at
RECURSIVE ParseLines(_)
ParseLines(lines) ==
    IF lines = <<>> THEN [chunks |-> <<>>, returned |-> FALSE]
    ELSE LET line == Head(lines)
             rest == ParseLines(Tail(lines))
         IN  CASE line.kind = "sentinel" ->
                      [chunks |-> <<DoneChunk>>, returned |-> TRUE]
               [] line.kind = "malformed" ->
                      [chunks |-> <<>>, returned |-> FALSE]
               [] line.kind = "content" ->
                      [chunks |-> <<ContentChunk(line.content)>> \o rest.chunks,
                       returned |-> rest.returned]
               [] OTHER -> rest

\* part_002 135: split and keep the lines that start with "data: "
DataLines(read) == SelectSeq(read, LAMBDA line : line.kind # "comment")

\* part_002 127-155 (OpenRouter), 305-333 (GLHF): one pass of the for-await
\* loop; an empty read and a read that is exactly "data: [DONE]" are
\* skipped (132)
parseSseRead(read) ==
    IF read = <<>> \/ read = <<Sentinel>>
    THEN [chunks |-> <<>>, returned |-> FALSE]
    ELSE ParseLines(DataLines(read))

\* cohere.ts 141-174: one pass of the for-await loop
parseCohereRead(read) ==
    IF read = <<>> THEN [chunks |-> <<>>, returned |-> FALSE]
    ELSE CASE read[1].kind = "sentinel" ->
                  [chunks |-> <<DoneChunk>>, returned |-> TRUE]
           [] read[1].kind \in {"content", "partial"} ->
                  [chunks |-> <<ContentChunk(read[1].content)>>,
                   returned |-> FALSE]
           [] OTHER -> [chunks |-> <<>>, returned |-> FALSE]

parseRead(p, read) ==
    IF p = "cohere" THEN parseCohereRead(read) ELSE parseSseRead(read)

(***************************************************************************)
(* makeRequest, which both generateResponse and generateStreamingResponse  *)
(* run under withRetry: the search it awaits when one is wanted and the    *)
(* request it then posts.                                                  *)
(***************************************************************************)
VendorContent == <<"Vendor", "response">>

AugmentMessageLists ==
    { <<>> } \cup
    { <<Message("user", q)>> : q \in SearchQueries } \cup
    { << Message("system", <<"Be", "brief">>),
         Message("user", <<"what", "is", "the", "latest", "AI", "model">>) >>,
      << Message("user", <<"Test", "query">>),
         Message("assistant", <<"Test", "response">>) >> }

AugmentOptions ==
    [ systemPrompt : {None, Some(<<"You", "are", "helpful">>)},
      messages : AugmentMessageLists,
      useSearch : BOOLEAN ]

\* part_002 170-181: searchSearXNG answers every failure with [], so the
\* catch of searchInternet is never entered
providerSearchInternet(urlConfigured, response) ==
    summarizeSearchResults(searchSearXNG(urlConfigured, response))

\* part_002 45: the condition under which the provider searches
SearchWanted(options) ==
    /\ options.useSearch
    /\ Len(options.messages) > 0
    /\ options.messages[Len(options.messages)].role = "user"

\* part_002 36-42: the system prompt, then the caller's messages
BaseApiMessages(options) ==
    << Message("system",
               IF Truthy(options.systemPrompt) THEN Val(options.systemPrompt)
               ELSE generateSystemPrompt(None)) >> \o options.messages

\* part_002 56 / cohere.ts 51: the text built from the search results
SearchResultsText(searchQuery, searchResults) ==
    "Search results for \"" \o searchQuery \o "\":\n"
        \o searchResults
        \o "\n\nPlease use these search results to provide an up-to-date response."

\* part_002 54-57: the message that carries the search results
SearchResultsMessage(searchQuery, searchResults) ==
    Message("system", <<SearchResultsText(searchQuery, searchResults)>>)

\* (mutation) whatever the search answered is injected
makeRequest_InjectsAlways(options, urlConfigured, response) ==
    LET searchQuery ==
            JoinWords(optimizeSearchQuery(
                          options.messages[Len(options.messages)].content))
        searchResults == providerSearchInternet(urlConfigured, response)
    IN  IF SearchWanted(options)
        THEN [searched |-> <<searchQuery>>,
              apiMessages |->
                  Append(BaseApiMessages(options),
                         SearchResultsMessage(searchQuery, searchResults))]
        ELSE [searched |-> <<>>, apiMessages |-> BaseApiMessages(options)]

\* part_002 32-63: the queries handed to searchInternet and the message
\* list posted to the vendor
makeRequest(options, urlConfigured, response) ==
    LET searchQuery ==
            JoinWords(optimizeSearchQuery(
                          options.messages[Len(options.messages)].content))
        searchResults == providerSearchInternet(urlConfigured, response)
    IN  IF SearchWanted(options)
        THEN [searched |-> <<searchQuery>>,
              apiMessages |->
                  IF /\ searchResults # ""
                     /\ searchResults # "No search results found."
                  THEN Append(BaseApiMessages(options),
                              SearchResultsMessage(searchQuery, searchResults))
                  ELSE BaseApiMessages(options)]
        ELSE [searched |-> <<>>, apiMessages |-> BaseApiMessages(options)]

\* cohere.ts 64-66: a system message of the list is appended to the
\* preamble after a line feed
RECURSIVE SystemLines(_)
SystemLines(msgs) ==
    IF msgs = <<>> THEN <<>>
    ELSE (IF Head(msgs).role = "system" THEN <<"\n">> \o Head(msgs).content
          ELSE <<>>) \o SystemLines(Tail(msgs))

\* cohere.ts 67-72: the user and assistant messages, in Cohere's format
RECURSIVE ChatHistory(_)
ChatHistory(msgs) ==
    IF msgs = <<>> THEN <<>>
    ELSE (IF Head(msgs).role = "system" THEN <<>>
          ELSE << [role |-> Head(msgs).role, message |-> Head(msgs).content] >>)
             \o ChatHistory(Tail(msgs))

\* cohere.ts 35-38, 59-87: the body posted to Cohere, injected being what
\* the search added to the preamble
CohereBody(options, injected) ==
    LET msgs == options.messages
        chatHistory == ChatHistory(msgs)
    IN  [message |-> IF msgs # <<>> /\ msgs[Len(msgs)].role = "user"
                     THEN msgs[Len(msgs)].content ELSE <<>>,
         chat_history |-> IF Len(chatHistory) > 1
                          THEN SubSeq(chatHistory, 1, Len(chatHistory) - 1)
                          ELSE <<>>,
         preamble |-> (IF Truthy(options.systemPrompt)
                       THEN Val(options.systemPrompt)
                       ELSE generateSystemPrompt(None))
                         \o injected \o SystemLines(msgs)]

\* cohere.ts 51: what a search that found results adds to the preamble
PreambleInjection(searchQuery, searchResults) ==
    <<"\n", "\n", SearchResultsText(searchQuery, searchResults)>>

\* cohere.ts 30-98: the queries handed to searchInternet and the body
\* posted to the vendor
cohereMakeRequest(options, urlConfigured, response) ==
    LET searchQuery ==
            JoinWords(optimizeSearchQuery(
                          options.messages[Len(options.messages)].content))
        searchResults == providerSearchInternet(urlConfigured, response)
    IN  IF SearchWanted(options)
        THEN [searched |-> <<searchQuery>>,
              body |-> CohereBody(options,
                           IF /\ searchResults # ""
                              /\ searchResults # "No search results found."
                           THEN PreambleInjection(searchQuery, searchResults)
                           ELSE <<>>)]
        ELSE [searched |-> <<>>, body |-> CohereBody(options, <<>>)]

\* the request a provider makes of the options and the answer of its search
RequestOf(p, options, urlConfigured, response) ==
    IF p = "cohere"
    THEN LET made == cohereMakeRequest(options, urlConfigured, response)
         IN  [response |-> response, searched |-> made.searched,
              body |-> made.body, post |-> "pending"]
    ELSE LET made == makeRequest(options, urlConfigured, response)
         IN  [response |-> response, searched |-> made.searched,
              apiMessages |-> made.apiMessages, post |-> "pending"]

\* the providers that augment a request: OpenRouter (GLHF has the same
\* text) and Cohere
AugmentProviders == {"openrouter", "cohere"}

streamOthers == <<kv, now, appended, maxKeep, lastCall, apiKeys, providers,
                  client, retry, search, inflight, clientVars>>

\* the options of the streaming calls: one question, with the assistant's
\* answer after it or not, with and without search
StreamOptions ==
    { options \in AugmentOptions :
          /\ options.systemPrompt = None
          /\ options.messages \in
                 { <<Message("user", <<"Test", "query">>)>>,
                   << Message("user", <<"Test", "query">>),
                      Message("assistant", <<"Test", "response">>) >> } }

\* what the search of a streaming request answers
StreamSearchResponses ==
    { response \in SearXNGResponses :
          \/ response.kind = "error"
          \/ response.kind = "results" /\ Len(response.results) <= 1 }

\* provider.generateStreamingResponse(options) is called and the consumer
\* asks for the first chunk, which starts the generator's body
StartStreaming(p, options, urlConfigured) ==
    /\ stream.status = "none"
    /\ stream' = [status |-> "requesting", provider |-> p,
                  options |-> options, urlConfigured |-> urlConfigured,
                  attempt |-> 0, request |-> None,
                  reads |-> 0, lastRead |-> <<>>, before |-> <<>>,
                  sawMalformed |-> FALSE, sawWellFormed |-> FALSE,
                  pending |-> <<>>, yielded |-> <<>>, cause |-> "none"]
    /\ UNCHANGED streamOthers

\* config.ts 92-94 around part_002 32-66 / cohere.ts 30-76: an attempt of
\* withRetry calls makeRequest, which awaits its search when one is wanted
\* (part_002 50, cohere.ts 47) and otherwise calls axios.post at once
RequestStarts ==
    /\ stream.status = "requesting"
    /\ LoopContinues(stream.attempt, DefaultMaxRetries)
    /\ stream' =
           IF SearchWanted(stream.options)
           THEN [stream EXCEPT !.status = "searching"]
           ELSE [stream EXCEPT
                     !.status = "posted",
                     !.request =
                         Some(RequestOf(stream.provider, stream.options,
                                        stream.urlConfigured,
                                        [kind |-> "none"]))]
    /\ UNCHANGED streamOthers

\* searchInternet settles (searxng.ts 68 gives its request ten seconds),
\* the results are injected or not and the request is posted: part_002
\* 52-66 / cohere.ts 49-76.  axios.post is given no timeout.
RequestPosted ==
    /\ stream.status = "searching"
    /\ \E response \in StreamSearchResponses :
           stream' =
               [stream EXCEPT
                    !.status = "posted",
                    !.request =
                        Some(RequestOf(stream.provider, stream.options,
                                       stream.urlConfigured, response))]
    /\ UNCHANGED streamOthers

\* axios.post settles: resolved, the response stream is read (part_002
\* 127); rejected, withRetry goes to its back-off sleep (config.ts 95-103)
PostSettles ==
    /\ stream.status = "posted"
    /\ \E connected \in BOOLEAN :
           stream' = [stream EXCEPT
                          !.status = IF connected THEN "reading"
                                     ELSE "sleeping"]
    /\ UNCHANGED streamOthers

\* config.ts 103, 92: the back-off timer fires and the loop counts on
BackoffElapses ==
    /\ stream.status = "sleeping"
    /\ stream' = [stream EXCEPT !.status = "requesting", !.attempt = @ + 1]
    /\ UNCHANGED streamOthers

\* config.ts 107-108 raises; part_002 158-161 / cohere.ts 177-180 catch and
\* yield the error chunk
RequestExhausted ==
    /\ stream.status = "requesting"
    /\ ~LoopContinues(stream.attempt, DefaultMaxRetries)
    /\ stream' = [stream EXCEPT !.status = "suspended",
                                !.cause = "retries",
                                !.yielded = Append(@, StreamErrorChunk)]
    /\ UNCHANGED streamOthers

HasKind(read, kinds) == \E i \in 1..Len(read) : read[i].kind \in kinds

\* the transport delivers one more read to the for-await loop, which runs
\* to its first yield: pending are the chunks this read yields after that
\* one, each at a later request of the consumer.  A read that yields
\* nothing leaves the generator awaiting the next read.
ReadArrives ==
    /\ stream.status = "reading"
    /\ stream.reads < MaxReads
    /\ \E read \in ReadsOf(stream.provider) :
         LET chunks == parseRead(stream.provider, read).chunks
         IN  stream' =
                 [stream EXCEPT
                      !.reads = @ + 1,
                      !.lastRead = read,
                      !.before = stream.yielded,
                      !.sawMalformed = @ \/ HasKind(read, {"malformed"}),
                      !.sawWellFormed =
                          @ \/ HasKind(read, {"content", "other", "sentinel"}),
                      !.yielded = IF chunks = <<>> THEN @
                                  ELSE Append(@, Head(chunks)),
                      !.pending = IF chunks = <<>> THEN <<>>
                                  ELSE Tail(chunks),
                      !.status = IF chunks = <<>> THEN @ ELSE "suspended",
                      !.cause = IF chunks # <<>> /\ Head(chunks).done
                                THEN "sentinel" ELSE @]
    /\ UNCHANGED streamOthers

\* the transport stream is exhausted: part_002 157 / cohere.ts 176
TransportEnds ==
    /\ stream.status = "reading"
    /\ stream' = [stream EXCEPT !.status = "suspended",
                                !.cause = "exhausted",
                                !.yielded = Append(@, DoneChunk)]
    /\ UNCHANGED streamOthers

\* the connection fails while the stream is read: the for-await raises into
\* the outer catch, part_002 158-161 / cohere.ts 177-180
TransportFails ==
    /\ stream.status = "reading"
    /\ stream' = [stream EXCEPT !.status = "suspended",
                                !.cause = "connection",
                                !.yielded = Append(@, StreamErrorChunk)]
    /\ UNCHANGED streamOthers

\* the consumer asks for the next chunk and the generator runs on from its
\* yield: past the final chunk it returns (part_002 141, 157, 161); with
\* chunks of the read left it yields the next; else it awaits the next read
ConsumerNext ==
    /\ stream.status = "suspended"
    /\ stream' =
           IF stream.cause # "none" THEN [stream EXCEPT !.status = "ended"]
           ELSE IF stream.pending # <<>>
           THEN [stream EXCEPT
                     !.yielded = Append(@, Head(stream.pending)),
                     !.pending = Tail(@),
                     !.cause = IF Head(stream.pending).done THEN "sentinel"
                               ELSE @]
           ELSE [stream EXCEPT !.status = "reading"]
    /\ UNCHANGED streamOthers

\* the consumer stops iterating after a chunk that is not the last: its
\* return() ends the generator at the yield, and nothing more is produced
ConsumerReturns ==
    /\ stream.status = "suspended"
    /\ stream.cause = "none"
    /\ stream' = [stream EXCEPT !.status = "abandoned"]
    /\ UNCHANGED streamOthers

InitStream ==
    /\ kv = EmptyStore
    /\ now = 0
    /\ OthersIdle
    /\ ClientIdle

NextStream ==
    \/ \E p \in StreamingProviders, options \in StreamOptions,
          urlConfigured \in BOOLEAN :
           StartStreaming(p, options, urlConfigured)
    \/ RequestStarts
    \/ RequestPosted
    \/ PostSettles
    \/ BackoffElapses
    \/ RequestExhausted
    \/ ReadArrives
    \/ TransportEnds
    \/ TransportFails
    \/ ConsumerNext
    \/ ConsumerReturns

SpecStream == InitStream /\ [][NextStream]_vars

\* what the code itself guarantees to happen: the generator's own steps and
\* the runtime's timer; and a consumer that either asks for the next chunk
\* or stops.  Nothing bounds how long axios.post or a read of the response
\* stream takes.
SpecStreamLive ==
    /\ SpecStream
    /\ WF_vars(RequestStarts \/ RequestPosted \/ BackoffElapses
                    \/ RequestExhausted)
    /\ WF_vars(ConsumerNext \/ ConsumerReturns)

StreamEnded == stream.status = "ended"
DoneChunks == { k \in 1..Len(stream.yielded) : stream.yielded[k].done }

StreamRunning ==
    stream.status \in {"requesting", "searching", "posted", "sleeping",
                       "reading"}

(***************************************************************************)
(* C31.  Every chunk sequence produced by a provider's                     *)
(* generateStreamingResponse is finite and holds exactly one chunk with    *)
(* done=true, its last: a call that was started ends (or is given up by    *)
(* its consumer); before its final chunk no done chunk has been yielded;   *)
(* and once it has ended, on the success path (sentinel seen, or transport *)
(* exhausted) and on the error path (retries exhausted, or connection      *)
(* failure while reading) alike, the only done chunk is the last chunk.    *)
(***************************************************************************)
C31_OneDoneChunkLast ==
    /\ [](StreamRunning => DoneChunks = {})
    /\ [](StreamEnded =>
            /\ stream.cause \in {"sentinel", "exhausted", "retries", "connection"}
            /\ Len(stream.yielded) >= 1
            /\ DoneChunks = {Len(stream.yielded)})
    /\ (stream.status = "requesting") ~>
           (StreamEnded \/ stream.status = "abandoned")

\* what does hold: a done chunk is the last chunk of its sequence, a
\* sequence that ended has exactly one, and one its consumer gave up has
\* none
DoneChunkOnlyLast ==
    /\ StreamRunning => DoneChunks = {}
    /\ stream.status = "suspended" => DoneChunks \subseteq {Len(stream.yielded)}
    /\ stream.status = "abandoned" => DoneChunks = {}
    /\ StreamEnded =>
           /\ stream.cause \in {"sentinel", "exhausted", "retries", "connection"}
           /\ DoneChunks = {Len(stream.yielded)}

\* the connection failed after content had been yielded
ConnectionFailedAfterContent ==
    /\ StreamEnded
    /\ stream.cause = "connection"
    /\ Len(stream.yielded) >= 2
    /\ ~stream.yielded[1].done
    /\ DoneChunks = {Len(stream.yielded)}

(***************************************************************************)
(* C32.  A single malformed frame does not abort a provider stream and is  *)
(* the only thing skipped: of a network read that holds a malformed frame, *)
(* every well-formed content frame, those after the malformed one          *)
(* included, is yielded as a chunk, and the stream still ends with a       *)
(* done=true chunk.                                                        *)
(***************************************************************************)
C32_MalformedFrameOnlySkipped ==
    /\ ( /\ stream.status \in {"reading", "suspended", "ended"}
         /\ stream.pending = <<>>
         /\ stream.provider \in {"openrouter", "glhf"}
         /\ stream.cause \in {"none", "sentinel"}
         /\ HasKind(stream.lastRead, {"malformed"})
         /\ ~HasKind(stream.lastRead, {"sentinel"}) ) =>
           stream.yielded =
               stream.before \o
                   ParseLines_SkipsLineOnly(DataLines(stream.lastRead)).chunks
    /\ StreamEnded => stream.yielded[Len(stream.yielded)].done

\* what does hold: the read with the malformed frame yields the content
\* frames in front of it, the stream goes on with the next read, and it
\* ends with a done chunk
MalformedFrameEndsItsRead ==
    ( /\ stream.status = "reading"
      /\ stream.pending = <<>>
      /\ stream.provider \in {"openrouter", "glhf"}
      /\ HasKind(stream.lastRead, {"malformed"}) ) =>
        \E n \in 0..Len(stream.lastRead) :
            /\ \A i \in 1..n : stream.lastRead[i].kind # "malformed"
            /\ stream.yielded =
                   stream.before \o
                       ParseLines_SkipsLineOnly(
                           DataLines(SubSeq(stream.lastRead, 1, n))).chunks

(***************************************************************************)
(* C33.  Total streaming failure ends with an error chunk: when the        *)
(* transport delivered frames and none of them parsed, or the connection   *)
(* failed, the sequence ends with a done=true chunk that carries the       *)
(* apology, not with an empty done=true chunk.                             *)
(***************************************************************************)
C33_TotalFailureEndsWithErrorChunk ==
    ( /\ StreamEnded
      /\ \/ stream.sawMalformed /\ ~stream.sawWellFormed
         \/ stream.cause \in {"connection", "retries"} ) =>
        stream.yielded[Len(stream.yielded)] = StreamErrorChunk

\* what does hold: the error chunk ends the sequence exactly when the
\* request or the connection failed
ErrorChunkOnlyOnRaise ==
    StreamEnded =>
        ( stream.yielded[Len(stream.yielded)] = StreamErrorChunk
            <=> stream.cause \in {"connection", "retries"} )

(***************************************************************************)
(* A provider's generateResponse with search augmentation (OpenRouter      *)
(* part_002 32-83 and 93-109; the same text in GLHF).  makeRequest runs    *)
(* once per attempt of withRetry, and so does the search.  Message         *)
(* contents are sequences of words; the injected message is one string.    *)
(***************************************************************************)
\* provider.generateResponse(options) is called
StartGenerate(p, options, urlConfigured) ==
    /\ stream.status = "none"
    /\ stream' = [status |-> "generating", provider |-> p,
                  options |-> options,
                  urlConfigured |-> urlConfigured, attempt |-> 0,
                  requests |-> <<>>, result |-> None]
    /\ UNCHANGED streamOthers

\* config.ts 92-94 around part_002 32-63 / cohere.ts 30-57: an attempt
\* calls makeRequest, which awaits its search when one is wanted and
\* otherwise posts at once
AttemptStarts ==
    /\ stream.status = "generating"
    /\ LoopContinues(stream.attempt, DefaultMaxRetries)
    /\ stream' =
           IF SearchWanted(stream.options)
           THEN [stream EXCEPT !.status = "searching"]
           ELSE [stream EXCEPT
                     !.status = "posted",
                     !.requests =
                         Append(@, RequestOf(stream.provider, stream.options,
                                             stream.urlConfigured,
                                             [kind |-> "none"]))]
    /\ UNCHANGED streamOthers

\* searchInternet settles (searxng.ts 68 gives its request ten seconds) and
\* the request is posted: part_002 66 / cohere.ts 76
SearchSettles ==
    /\ stream.status = "searching"
    /\ \E response \in SearXNGResponses :
           stream' =
               [stream EXCEPT
                    !.status = "posted",
                    !.requests =
                        Append(@, RequestOf(stream.provider, stream.options,
                                            stream.urlConfigured, response))]
    /\ UNCHANGED streamOthers

\* axios.post settles: part_002 100-104 / cohere.ts 115-119 on a post that
\* resolved, with a usable body or not; config.ts 95-103 on one that
\* rejected
VendorSettles ==
    /\ stream.status = "posted"
    /\ \E post \in {"resolved", "invalid", "rejected"} :
           stream' =
               [stream EXCEPT
                    !.requests[Len(stream.requests)].post = post,
                    !.status = IF post = "rejected" THEN "sleeping"
                               ELSE "returned",
                    !.result = IF post = "resolved" THEN Some(VendorContent)
                               ELSE IF post = "invalid" THEN Some(ApologyText)
                               ELSE @]
    /\ UNCHANGED streamOthers

\* config.ts 103, 92: the back-off timer fires and the loop counts on
GenerateBackoffElapses ==
    /\ stream.status = "sleeping"
    /\ stream' = [stream EXCEPT !.status = "generating", !.attempt = @ + 1]
    /\ UNCHANGED streamOthers

\* config.ts 107-108 raises; part_002 105-108 / cohere.ts 120-123 return
\* the apology
GenerateExhausted ==
    /\ stream.status = "generating"
    /\ ~LoopContinues(stream.attempt, DefaultMaxRetries)
    /\ stream' = [stream EXCEPT !.status = "returned",
                                !.result = Some(ApologyText)]
    /\ UNCHANGED streamOthers

NextAugment ==
    \/ \E p \in AugmentProviders, options \in AugmentOptions,
          urlConfigured \in BOOLEAN :
           StartGenerate(p, options, urlConfigured)
    \/ AttemptStarts
    \/ SearchSettles
    \/ VendorSettles
    \/ GenerateBackoffElapses
    \/ GenerateExhausted

SpecAugment == InitStream /\ [][NextAugment]_vars

\* the search of this request came back with at least one result
SearchFound(request) ==
    /\ stream.urlConfigured
    /\ request.response.kind = "results"
    /\ Len(request.response.results) > 0

\* the message list of a request as the vendor receives it: Cohere is sent
\* the chat history and the final message, and no system-role message
SentMessages(request) ==
    IF stream.provider = "cohere"
    THEN [i \in 1..Len(request.body.chat_history) |->
              Message(request.body.chat_history[i].role,
                      request.body.chat_history[i].message)]
             \o <<Message("user", request.body.message)>>
    ELSE request.apiMessages

\* what the provider sends for these options with useSearch off
PlainRequest ==
    RequestOf(stream.provider, [stream.options EXCEPT !.useSearch = FALSE],
              stream.urlConfigured, [kind |-> "none"])

\* searchInternet is called by a request exactly under the condition of
\* part_002 45 / cohere.ts 42, and then once
SearchedWhenWanted(request) ==
    /\ Len(request.searched) <= 1
    /\ request.searched # <<>> <=>
           ( /\ stream.options.useSearch
             /\ stream.options.messages # <<>>
             /\ stream.options.messages[Len(stream.options.messages)].role
                    = "user" )

\* a post that resolved ended the call with the vendor's content
ResolvedIsReturned(i) ==
    (stream.requests[i].post = "resolved") =>
        /\ i = Len(stream.requests)
        /\ stream.status = "returned"
        /\ stream.result = Some(VendorContent)

(***************************************************************************)
(* C34 as stated.  Search augmentation in a provider: searchInternet is    *)
(* invoked only when useSearch is true and the final message is from the   *)
(* user (and then once per request); its result is injected as one         *)
(* additional system-role message, after the caller's messages, only if    *)
(* the search returned results; when the search returns nothing or fails,  *)
(* the message list sent to the vendor is the one sent with useSearch off; *)
(* and a failed search never fails the call: a post that resolves is       *)
(* answered with the vendor's content.                                     *)
(***************************************************************************)
C34_SearchAugmentation ==
    stream.status \in {"posted", "sleeping", "generating", "returned"} =>
        \A i \in 1..Len(stream.requests) :
            LET request == stream.requests[i]
                sent == SentMessages(request)
                plain == SentMessages(PlainRequest)
                n == Len(sent)
            IN  /\ SearchedWhenWanted(request)
                /\ IF request.searched # <<>> /\ SearchFound(request)
                   THEN /\ n = Len(plain) + 1
                        /\ SubSeq(sent, 1, n - 1) = plain
                        /\ sent[n].role = "system"
                   ELSE sent = plain
                /\ ResolvedIsReturned(i)

(***************************************************************************)
(* C34 amended.  The same, except for how the result is injected: the      *)
(* OpenAI-style providers (OpenRouter, GLHF) add it as one system-role     *)
(* message after the caller's messages; Cohere, whose request carries no   *)
(* system-role messages, adds it to the preamble, between the system       *)
(* prompt and the caller's system messages, and sends the same message and *)
(* chat history as with useSearch off.  When the search returns nothing or *)
(* fails, the whole request is the one sent with useSearch off.            *)
(***************************************************************************)
C34_SearchAugmentationPerProvider ==
    stream.status \in {"posted", "sleeping", "generating", "returned"} =>
        \A i \in 1..Len(stream.requests) :
            LET request == stream.requests[i]
                found == request.searched # <<>> /\ SearchFound(request)
            IN  /\ SearchedWhenWanted(request)
                /\ IF stream.provider = "cohere"
                   THEN LET plain == PlainRequest.body
                            prompt == Len(plain.preamble)
                                          - Len(SystemLines(stream.options.messages))
                            n == Len(request.body.preamble)
                        IN  IF found
                            THEN /\ request.body.message = plain.message
                                 /\ request.body.chat_history =
                                        plain.chat_history
                                 /\ n = Len(plain.preamble) + 3
                                 /\ SubSeq(request.body.preamble, 1, prompt)
                                        \o SubSeq(request.body.preamble,
                                                  prompt + 4, n)
                                      = plain.preamble
                                 /\ SubSeq(request.body.preamble,
                                           prompt + 1, prompt + 2)
                                      = <<"\n", "\n">>
                            ELSE request.body = plain
                   ELSE LET plain == PlainRequest.apiMessages
                            n == Len(request.apiMessages)
                        IN  IF found
                            THEN /\ n = Len(plain) + 1
                                 /\ SubSeq(request.apiMessages, 1, n - 1) = plain
                                 /\ request.apiMessages[n].role = "system"
                            ELSE request.apiMessages = plain
                /\ ResolvedIsReturned(i)

\* Cohere's search found results: they are in the preamble, the message
\* and the chat history are those of the request without search, and the
\* call returned the vendor's content
C34_Witness ==
    /\ stream.status = "returned"
    /\ stream.provider = "cohere"
    /\ stream.options.useSearch
    /\ Len(stream.requests) = 1
    /\ stream.requests[1].searched = <<"latest AI model 2026">>
    /\ SearchFound(stream.requests[1])
    /\ stream.requests[1].post = "resolved"
    /\ Len(stream.requests[1].body.preamble) =
           Len(PlainRequest.body.preamble) + 3
    /\ stream.requests[1].body.chat_history = PlainRequest.body.chat_history
    /\ stream.result = Some(VendorContent)

\* the search failed on the second request of an OpenRouter call with
\* useSearch on, nothing was injected and the call returned the vendor's
\* content
FailedSearchNotInjected ==
    /\ stream.status = "returned"
    /\ stream.provider = "openrouter"
    /\ stream.options.useSearch
    /\ stream.urlConfigured
    /\ Len(stream.requests) = 2
    /\ stream.requests[2].searched = <<"latest AI model 2026">>
    /\ stream.requests[2].response.kind = "error"
    /\ stream.requests[2].post = "resolved"
    /\ Len(stream.requests[2].apiMessages) = 2
    /\ stream.result = Some(VendorContent)

\* results were found and injected as the last message
SearchResultsInjected ==
    /\ stream.status = "returned"
    /\ stream.provider = "openrouter"
    /\ Len(stream.requests) >= 1
    /\ stream.requests[1].searched # <<>>
    /\ SearchFound(stream.requests[1])
    /\ Len(stream.requests[1].apiMessages) = Len(stream.options.messages) + 2

====
